---- MODULE Spec2Model ----
(***************************************************************************)
(* InvoiceAgentLite: the field extractors, the confidence scorers and the  *)
(* upload / session-buffer / export handlers of src/app.py and src/main.py.*)
(*                                                                         *)
(* A text is a sequence of characters; a character is a one-element name.  *)
(* ASCII characters are written as themselves; the others are named by     *)
(* their reading, with the code point in the table below.                  *)
(*   GOU U+5408  KEI U+8A08  SEI U+8ACB  KYUU U+6C42  KIN U+91D1           *)
(*   GAKU U+984D ZEI U+7A0E  KOMI U+8FBC GO U+3054    EN U+5186            *)
(*   HATSU U+767A KOU U+884C NICHI U+65E5 NOU U+7D0D  HIN U+54C1           *)
(*   SHI U+652F  HARAI U+6255 KI U+671F  GEN U+9650   NEN U+5E74           *)
(*   GATSU U+6708 KABU U+682A SHIKI U+5F0F KAI U+4F1A SHA U+793E           *)
(*   YUU U+6709  DOU U+540C  ON U+5FA1   CHUU U+4E2D  TE U+30C6            *)
(*   SU U+30B9   TO U+30C8   SHOU U+5C0F NUKI U+629C  KESU U+6D88          *)
(*   HI U+8CBB   YEN U+00A5  FWYEN U+FFE5 FWCOLON U+FF1A IDSP U+3000       *)
(*   FW1 U+FF11  FW2 U+FF12  (full-width digits one and two)               *)
(*   SHO U+66F8  BAN U+756A  GOO U+53F7  RAKU U+697D  TEN U+5929           *)
(***************************************************************************)
EXTENDS Integers, Sequences, FiniteSets, TLC

VARIABLES
    fields,     \* the optional field values handed to a confidence scorer
    text,       \* the text handed to an extractor
    ret,        \* what the last applied function returned
    _STORE,     \* app.py _STORE: session id -> the list object of its rows
    heap,       \* the list objects ever created for _STORE, by reference
    issued,     \* how many session ids secrets.token_hex has produced
    config,     \* what load_config reads (file and environment)
    remote,     \* how the remote spreadsheet answers
    sheet,      \* the remote spreadsheet: the rows of its worksheets
    req,        \* per thread, the request it serves and the handler's locals
    served,     \* how many requests have arrived
    processor,  \* app.py's InvoiceProcessor, once it is constructed
    launcher    \* launch.py: the window of the launcher and its server

vars == <<fields, text, ret, _STORE, heap, issued, config, remote, sheet, req,
          served, processor, launcher>>
\* what the handlers of the server leave alone, what the functions applied
\* to a text or to fields leave alone
pureVars == <<fields, text, ret, processor, launcher>>
serverVars == <<_STORE, heap, issued, config, remote, sheet, req, served, processor,
                launcher>>

-----------------------------------------------------------------------------
(* Optional values: Python None and a present value.                       *)
None == <<>>
Some(v) == <<v>>
Get(o) == o[1]

(* Numbers.  A Python number is m / 10^e: an int has e = 0 and ty "int", a *)
(* float has ty "float" and no trailing zero in its fraction.              *)
IntNum(m) == [m |-> m, e |-> 0, ty |-> "int"]
FloatNum(m, e) == [m |-> m, e |-> e, ty |-> "float"]

(* Characters.                                                             *)
AsciiDigits == {"0", "1", "2", "3", "4", "5", "6", "7", "8", "9"}
FullWidthDigits == {"FW1", "FW2"}
\* \d of a str pattern: every Unicode decimal digit
Digit == AsciiDigits \cup FullWidthDigits
\* \s of a str pattern
Space == {" ", "\t", "\n", "\r", "IDSP"}
Kanji == {"GOU", "KEI", "SEI", "KYUU", "KIN", "GAKU", "ZEI", "KOMI", "GO", "EN",
          "HATSU", "KOU", "NICHI", "NOU", "HIN", "SHI", "HARAI", "KI", "GEN",
          "NEN", "GATSU", "KABU", "SHIKI", "KAI", "SHA", "YUU", "DOU", "ON",
          "CHUU", "TE", "SU", "TO", "SHOU", "NUKI", "KESU", "HI", "SHO", "BAN",
          "GOO", "RAKU", "TEN", "YA", "MA", "UN", "YU", "HON", "YUUBIN", "BIN",
          "SA", "KAWA", "KYUUKOU"}
Punct == {",", ".", "/", "-", ":", "FWCOLON", "YEN", "FWYEN", "\\", "\""}
\* [a-zA-Z]
Letters ==
    { "a", "b", "c", "d", "e", "f", "g", "h", "i", "j", "k", "l",
      "m", "n", "o", "p", "q", "r", "s", "t", "u", "v", "w", "x",
      "y", "z", "A", "B", "C", "D", "E", "F", "G", "H", "I", "J",
      "K", "L", "M", "N", "O", "P", "Q", "R", "S", "T", "U", "V",
      "W", "X", "Y", "Z" }
Alphabet == Digit \cup Space \cup Kanji \cup Punct \cup Letters
NotDigit == Alphabet \ Digit
\* . and [^\n]
NotNewline == Alphabet \ {"\n"}

DigitVal(c) ==
    CASE c = "0" -> 0 [] c = "1" -> 1 [] c = "2" -> 2 [] c = "3" -> 3
      [] c = "4" -> 4 [] c = "5" -> 5 [] c = "6" -> 6 [] c = "7" -> 7
      [] c = "8" -> 8 [] c = "9" -> 9 [] c = "FW1" -> 1 [] c = "FW2" -> 2

-----------------------------------------------------------------------------
(* Regular expressions, matched as Python's re matches them: a backtracking*)
(* search whose alternatives are tried in order, greedy repetitions longest*)
(* first and lazy ones shortest first.  Match gives every way the node can *)
(* match at position i, in the order the engine would try them; the first  *)
(* element is the match re.search reports.  Positions count the characters *)
(* before them (0 .. Len(t)); g holds the spans of groups 1 and 2.         *)
Unbounded == 1000000
NoGroups == << <<-1, -1>>, <<-1, -1>> >>
Node(k, cs, a, lo, hi, lazy, n) ==
    [k |-> k, cs |-> cs, a |-> a, lo |-> lo, hi |-> hi, lazy |-> lazy, n |-> n]
Cls(S) == Node("cls", S, <<>>, 1, 1, FALSE, 0)
Cat(a) == Node("cat", {}, a, 1, 1, FALSE, 0)
Alt(a) == Node("alt", {}, a, 1, 1, FALSE, 0)
Rep(sub, lo, hi) == Node("rep", {}, <<sub>>, lo, hi, FALSE, 0)
LazyRep(sub, lo, hi) == Node("rep", {}, <<sub>>, lo, hi, TRUE, 0)
Grp(n, sub) == Node("grp", {}, <<sub>>, 1, 1, FALSE, n)
Lit(s) == Cat([j \in 1..Len(s) |-> Cls({s[j]})])
Opt(sub) == Rep(sub, 0, 1)
Star(sub) == Rep(sub, 0, Unbounded)
Plus(sub) == Rep(sub, 1, Unbounded)

RECURSIVE Match(_, _, _, _)
RECURSIVE MatchCat(_, _, _, _, _)
RECURSIVE CatRest(_, _, _, _, _, _)
RECURSIVE MatchAlt(_, _, _, _, _)
RECURSIVE MatchRep(_, _, _, _, _)
RECURSIVE RepMore(_, _, _, _, _, _)

Match(nd, t, i, g) ==
    CASE nd.k = "cls" ->
            IF i < Len(t) /\ t[i + 1] \in nd.cs
            THEN << [e |-> i + 1, g |-> g] >> ELSE << >>
      [] nd.k = "cat" -> MatchCat(nd.a, 1, t, i, g)
      [] nd.k = "alt" -> MatchAlt(nd.a, 1, t, i, g)
      [] nd.k = "rep" -> MatchRep(nd, 0, t, i, g)
      [] nd.k = "grp" ->
            LET rs == Match(nd.a[1], t, i, g)
            IN  [j \in 1..Len(rs) |->
                    [e |-> rs[j].e,
                     g |-> [rs[j].g EXCEPT ![nd.n] = <<i, rs[j].e>>]]]

MatchCat(a, k, t, i, g) ==
    IF k > Len(a) THEN << [e |-> i, g |-> g] >>
    ELSE LET rs == Match(a[k], t, i, g) IN CatRest(a, k, t, rs, 1, Len(rs))

\* the ways the rest of a concatenation matches after the ways lo .. hi of its
\* k-th part, in their order (the range is halved to keep the recursion flat)
CatRest(a, k, t, rs, lo, hi) ==
    IF lo > hi THEN << >>
    ELSE IF lo = hi THEN MatchCat(a, k + 1, t, rs[lo].e, rs[lo].g)
    ELSE LET mid == (lo + hi) \div 2
         IN  CatRest(a, k, t, rs, lo, mid) \o CatRest(a, k, t, rs, mid + 1, hi)

MatchAlt(a, k, t, i, g) ==
    IF k > Len(a) THEN << >>
    ELSE Match(a[k], t, i, g) \o MatchAlt(a, k + 1, t, i, g)

\* the repetition of a single character class: the run of characters of the
\* class from i on gives every count lo .. min(hi, run), longest first when
\* greedy and shortest first when lazy
\* the length of the run of characters of the class from i on, counted up to hi
ClassRun(cs, t, i, hi) ==
    LET most == IF Len(t) - i < hi THEN Len(t) - i ELSE hi
    IN  CHOOSE n \in 0..most :
            /\ n = most \/ t[i + n + 1] \notin cs
            /\ \A j \in 1..n : t[i + j] \in cs
MatchClassRep(nd, t, i, g) ==
    LET top == ClassRun(nd.a[1].cs, t, i, nd.hi)
        cnt == IF top >= nd.lo THEN top - nd.lo + 1 ELSE 0
    IN  [j \in 1..cnt |->
            [e |-> IF nd.lazy THEN i + nd.lo + j - 1 ELSE i + top - j + 1, g |-> g]]

MatchRep(nd, c, t, i, g) ==
    IF c = 0 /\ nd.a[1].k = "cls" THEN MatchClassRep(nd, t, i, g)
    ELSE
    LET more == IF c < nd.hi
                THEN RepMore(nd, c, t, i, Match(nd.a[1], t, i, g), 1)
                ELSE << >>
        stop == IF c >= nd.lo THEN << [e |-> i, g |-> g] >> ELSE << >>
    IN  IF nd.lazy THEN stop \o more ELSE more \o stop

RepMore(nd, c, t, i, rs, j) ==
    IF j > Len(rs) THEN << >>
    ELSE (IF rs[j].e > i THEN MatchRep(nd, c + 1, t, rs[j].e, rs[j].g) ELSE << >>)
         \o RepMore(nd, c, t, i, rs, j + 1)

(* re.search: the first position, left to right, at which the pattern      *)
(* matches; found = FALSE is Python's None.                                *)
NotFound == [found |-> FALSE, s |-> 0, e |-> 0, g |-> NoGroups]
\* the match at position s, given the ways rs the pattern matches there
MatchAt(s, rs) ==
    IF rs = << >> THEN NotFound
    ELSE [found |-> TRUE, s |-> s, e |-> rs[1].e, g |-> rs[1].g]
\* the match at the first position of a .. b at which the pattern matches
\* (the range is halved to keep the recursion flat)
RECURSIVE FirstMatch(_, _, _, _)
RECURSIVE OrFirstMatch(_, _, _, _, _)
FirstMatch(re, t, a, b) ==
    IF a > b THEN NotFound
    ELSE IF a = b THEN MatchAt(a, Match(re, t, a, NoGroups))
    ELSE OrFirstMatch(FirstMatch(re, t, a, (a + b) \div 2), re, t, (a + b) \div 2 + 1, b)
\* m if it is a match, else the first match of a .. b
OrFirstMatch(m, re, t, a, b) == IF m.found THEN m ELSE FirstMatch(re, t, a, b)
SearchFrom(re, t, i) == FirstMatch(re, t, i, Len(t))
Search(re, t) == SearchFrom(re, t, 0)
\* m.group(0) and m.group(n)
Group0(t, m) == SubSeq(t, m.s + 1, m.e)
Group(t, m, n) == SubSeq(t, m.g[n][1] + 1, m.g[n][2])

-----------------------------------------------------------------------------
(* String helpers of the Python library, as the code uses them.            *)
\* s.replace(c, r) for a one-character c and a string r
RECURSIVE ReplaceIn(_, _, _, _, _)
ReplaceIn(s, c, r, a, b) ==
    IF a > b THEN << >>
    ELSE IF a = b THEN (IF s[a] = c THEN r ELSE <<s[a]>>)
    ELSE LET mid == (a + b) \div 2
         IN  ReplaceIn(s, c, r, a, mid) \o ReplaceIn(s, c, r, mid + 1, b)
Replace(s, c, r) == ReplaceIn(s, c, r, 1, Len(s))

\* s.replace(p, r) for a string p of one or more characters
RECURSIVE ReplaceStr(_, _, _)
ReplaceStr(s, p, r) ==
    IF s = << >> THEN << >>
    ELSE IF Len(s) >= Len(p) /\ SubSeq(s, 1, Len(p)) = p
         THEN r \o ReplaceStr(SubSeq(s, Len(p) + 1, Len(s)), p, r)
         ELSE <<Head(s)>> \o ReplaceStr(Tail(s), p, r)

\* re.sub of a character class by a string
RECURSIVE SubClass(_, _, _)
SubClass(s, cs, r) ==
    IF s = << >> THEN << >>
    ELSE (IF Head(s) \in cs THEN r ELSE <<Head(s)>>) \o SubClass(Tail(s), cs, r)

\* re.sub(r'[ \t]+', ' ', s): every run of blanks becomes one space
CollapseBlanks(s) ==
    LET Blank(j) == s[j] \in {" ", "\t"}
        kept == SelectSeq([j \in 1..Len(s) |-> j],
                          LAMBDA j : ~(Blank(j) /\ j < Len(s) /\ Blank(j + 1)))
    IN  [k \in 1..Len(kept) |-> IF Blank(kept[k]) THEN " " ELSE s[kept[k]]]

\* s.strip(): leading and trailing whitespace removed
LStrip(s) ==
    IF \A j \in 1..Len(s) : s[j] \in Space THEN << >>
    ELSE SubSeq(s, CHOOSE j \in 1..Len(s) :
                       s[j] \notin Space /\ \A k \in 1..(j - 1) : s[k] \in Space,
                Len(s))
RStrip(s) ==
    IF \A j \in 1..Len(s) : s[j] \in Space THEN << >>
    ELSE SubSeq(s, 1, CHOOSE j \in 1..Len(s) :
                          s[j] \notin Space /\ \A k \in (j + 1)..Len(s) : s[k] \in Space)
Strip(s) == RStrip(LStrip(s))

\* s.split(c): the pieces between the occurrences of c
Split(s, c) ==
    LET at == SelectSeq([j \in 1..Len(s) |-> j], LAMBDA j : s[j] = c)
        cut == <<0>> \o at \o <<Len(s) + 1>>
    IN  [k \in 1..(Len(at) + 1) |-> SubSeq(s, cut[k] + 1, cut[k + 1] - 1)]

\* s.zfill(n)
RECURSIVE ZFill(_, _)
ZFill(s, n) == IF Len(s) >= n THEN s ELSE ZFill(<<"0">> \o s, n)

\* '\n'.join(lines)
RECURSIVE JoinLines(_)
JoinLines(ls) ==
    IF ls = << >> THEN << >>
    ELSE IF Len(ls) = 1 THEN ls[1]
         ELSE ls[1] \o <<"\n">> \o JoinLines(Tail(ls))

\* the value of a string of decimal digits
RECURSIVE DigitsValue(_)
DigitsValue(s) ==
    IF s = << >> THEN 0
    ELSE 10 * DigitsValue(SubSeq(s, 1, Len(s) - 1)) + DigitVal(s[Len(s)])

\* t.splitlines(): the lines of t, without their line ends and without a
\* last empty line ("\r\n" is one line end)
SplitLines(s) ==
    LET IsEnd(j) == \/ s[j] = "\n"
                    \/ s[j] = "\r" /\ ~(j < Len(s) /\ s[j + 1] = "\n")
        ends == SelectSeq([j \in 1..Len(s) |-> j], IsEnd)
        StartOf(j) == IF s[j] = "\n" /\ j > 1 /\ s[j - 1] = "\r" THEN j - 1 ELSE j
        last == IF ends = << >> THEN 0 ELSE ends[Len(ends)]
        body == [k \in 1..Len(ends) |->
                    SubSeq(s, IF k = 1 THEN 1 ELSE ends[k - 1] + 1,
                           StartOf(ends[k]) - 1)]
    IN  IF last < Len(s) THEN Append(body, SubSeq(s, last + 1, Len(s))) ELSE body

\* ls[:n]
Prefix(ls, n) == SubSeq(ls, 1, IF Len(ls) < n THEN Len(ls) ELSE n)

\* sys.int_info.default_max_str_digits of CPython 3.11 and later (and of the
\* security releases of 3.7 to 3.10): the longest numeral int() converts
INT_MAX_STR_DIGITS == 4300
\* int(s) raises ValueError for a longer string of decimal digits
IntRaises(s) == Len(s) > INT_MAX_STR_DIGITS
\* int(s) for a string of decimal digits that it converts
PyInt(s) == IntNum(DigitsValue(s))

-----------------------------------------------------------------------------
(* src/app.py, the Japanese rule pack.                                     *)

\* unicodedata.normalize('NFKC', c) for one character of the alphabet
NFKC(c) ==
    CASE c = "FW1" -> "1" [] c = "FW2" -> "2" [] c = "FWYEN" -> "YEN"
      [] c = "FWCOLON" -> ":" [] c = "IDSP" -> " " [] OTHER -> c

_normalize(txt) ==
    LET t == Replace([j \in 1..Len(txt) |-> NFKC(txt[j])], "IDSP", <<" ">>)
    IN  CollapseBlanks(t)

AMOUNT_RE ==
    Cat(<< Alt(<< Cat(<< Opt(Cls({"GO"})), Star(Cls(Space)), Lit(<<"SEI", "KYUU">>),
                         Alt(<< Lit(<<"KIN", "GAKU">>), Lit(<<"GOU", "KEI">>) >>) >>),
                  Cat(<< Lit(<<"ZEI">>), Opt(Cls({"KOMI"})), Lit(<<"GOU", "KEI">>) >>),
                  Lit(<<"GOU", "KEI">>) >>),
           Star(Cls(NotDigit)),
           Grp(1, Alt(<< Cat(<< Rep(Cls(Digit), 1, 3),
                                Plus(Cat(<< Cls({","}), Rep(Cls(Digit), 3, 3) >>)) >>),
                         Plus(Cls(Digit)) >>)),
           Star(Cls(Space)),
           Opt(Cls({"EN"})) >>)

DATE_RE ==
    Cat(<< Alt(<< Lit(<<"HATSU", "KOU", "NICHI">>), Lit(<<"SEI", "KYUU", "NICHI">>),
                  Lit(<<"NOU", "HIN", "NICHI">>),
                  Lit(<<"SHI", "HARAI", "KI", "GEN">>) >>),
           Star(Cls(NotDigit)),
           Grp(1, Cat(<< Rep(Cls(Digit), 4, 4), Cls({".", "/", "NEN"}), Star(Cls(Space)),
                         Rep(Cls(Digit), 1, 2), Cls({".", "/", "GATSU"}), Star(Cls(Space)),
                         Rep(Cls(Digit), 1, 2), Opt(Cls({"NICHI"})) >>)) >>)

VENDOR_RE ==
    Alt(<< Cat(<< Alt(<< Lit(<<"KABU", "SHIKI", "KAI", "SHA">>),
                         Lit(<<"YUU", "GEN", "KAI", "SHA">>),
                         Lit(<<"GOU", "DOU", "KAI", "SHA">>) >>),
                  Plus(Cls(NotNewline)) >>),
           Cat(<< LazyRep(Cls(NotNewline), 1, Unbounded), Lit(<<"ON", "CHUU">>) >>) >>)

\* line 43: group 1 of the first match of AMOUNT_RE, None without a match
JpAmountGroup(t) ==
    LET m == Search(AMOUNT_RE, t)
    IN  IF m.found THEN Some(Group(t, m, 1)) ELSE None

\* the digits before the first comma only
JpAmount_UpToComma(t) ==
    IF JpAmountGroup(t) # None
    THEN Some(PyInt(Split(Get(JpAmountGroup(t)), ",")[1]))
    ELSE None

\* line 44: int() raises ValueError on the numeral that was matched
IntRaisesOn(group) == group # None /\ IntRaises(Replace(Get(group), ",", << >>))
JpAmountRaises(t) == IntRaisesOn(JpAmountGroup(t))

\* lines 42-44: the amount, when line 44 does not raise
JpAmount(t) ==
    IF JpAmountGroup(t) # None
    THEN Some(PyInt(Replace(Get(JpAmountGroup(t)), ",", << >>)))
    ELSE None

\* lines 45-52: the date
JpDate(t) ==
    LET dm == Search(DATE_RE, t)
    IN  IF dm.found
        THEN LET d1 == Replace(Replace(Replace(Group(t, dm, 1), "NEN", <<"-">>),
                                       "GATSU", <<"-">>), "NICHI", << >>)
                 d2 == Replace(Replace(d1, "/", <<"-">>), ".", <<"-">>)
             IN  Some(SubClass(d2, Space, << >>))
        ELSE None

\* the vendor looked for in the first two lines only
JpVendor_TwoLines(t) ==
    LET head == JoinLines(Prefix(SplitLines(t), 2))
        vm == Search(VENDOR_RE, head)
    IN  IF vm.found
        THEN Some(Strip(ReplaceStr(Group0(head, vm), <<"ON", "CHUU">>, << >>)))
        ELSE None

\* lines 53-56: the vendor
JpVendor(t) ==
    LET head == JoinLines(Prefix(SplitLines(t), 20))
        vm == Search(VENDOR_RE, head)
    IN  IF vm.found
        THEN Some(Strip(ReplaceStr(Group0(head, vm), <<"ON", "CHUU">>, << >>)))
        ELSE None

-----------------------------------------------------------------------------
(* Scores.  A confidence is kept in hundredths (67 is 0.67).               *)

\* round(num / den, 2) in hundredths.  The quotients of the scorers (thirds
\* and ninths) are never half-way between two hundredths, so the nearest
\* hundredth is what Python's round gives.
Round2(num, den) == (200 * num + den) \div (2 * den)

\* sum(x is not None for x in xs)
RECURSIVE CountPresent(_)
CountPresent(xs) ==
    IF xs = << >> THEN 0
    ELSE (IF Head(xs) # None THEN 1 ELSE 0) + CountPresent(Tail(xs))

\* src/app.py:61, the threshold 0.8 in hundredths
JP_THRESHOLD == 80
\* src/app.py:315 and src/main.py:278, the threshold 0.67 in hundredths
REVIEW_THRESHOLD == 67

\* src/app.py lines 57-62: score = hits / 3; the flag compares the unrounded
\* score with 0.8 (hits / 3 < 80 / 100), the record carries round(score, 2)
JpRecord(amount, date, vendor) ==
    LET hits == CountPresent(<<amount, date, vendor>>)
    IN  [amount |-> amount, date |-> date, vendor |-> vendor,
         confidence |-> Round2(hits, 3),
         needs_review |-> IF 100 * hits < JP_THRESHOLD * 3 THEN "TRUE" ELSE "FALSE"]

\* extract_fields_jp(txt) raises ValueError instead of returning
extract_fields_jp_raises(txt) == JpAmountRaises(_normalize(txt))
\* what extract_fields_jp(txt) returns when it does not raise
extract_fields_jp(txt) ==
    LET t == _normalize(txt)
    IN  JpRecord(JpAmount(t), JpDate(t), JpVendor(t))

\* the hits counted by truth value: a zero amount and an empty string are
\* missed
App_calculate_confidence_Truthy(amount, issue_date, vendor) ==
    LET a == IF amount # None /\ Get(amount).m # 0 THEN 1 ELSE 0
        d == IF issue_date # None /\ Get(issue_date) # << >> THEN 1 ELSE 0
        v == IF vendor # None /\ Get(vendor) # << >> THEN 1 ELSE 0
    IN  Round2(a + d + v, 3)

\* src/app.py InvoiceProcessor.calculate_confidence
App_calculate_confidence(amount, issue_date, vendor) ==
    Round2(CountPresent(<<amount, issue_date, vendor>>), 3)

\* the flag also raised at the threshold itself
App_needs_review_AtThreshold(confidence) ==
    IF confidence <= REVIEW_THRESHOLD THEN "TRUE" ELSE "FALSE"

\* src/app.py line 315
App_needs_review(confidence) ==
    IF confidence < REVIEW_THRESHOLD THEN "TRUE" ELSE "FALSE"

\* the score normalised against 4.0 instead of 4.5
Main_calculate_confidence_Max4(fs) ==
    LET key == CountPresent(<<fs.vendor, fs.issue_date, fs.total>>)
        bonus == CountPresent(<<fs.subtotal>>) + CountPresent(<<fs.tax>>)
                 + CountPresent(<<fs.invoice_no>>)
    IN  Round2(2 * key + bonus, 2 * 3 + 2)

\* the tax counted against the score instead of for it
Main_calculate_confidence_TaxPenalty(fs) ==
    LET key == CountPresent(<<fs.vendor, fs.issue_date, fs.total>>)
        bonus == CountPresent(<<fs.subtotal>>) + CountPresent(<<fs.invoice_no>>)
        penalty == IF 2 * key + bonus > 0 THEN CountPresent(<<fs.tax>>) ELSE 0
    IN  Round2(2 * key + bonus - penalty, 2 * 3 + 3)

\* src/main.py InvoiceProcessor.calculate_confidence; hits are counted in
\* halves (a key field is 2 halves, a bonus field 1), max_score is 9 halves
Main_calculate_confidence(fs) ==
    LET key == CountPresent(<<fs.vendor, fs.issue_date, fs.total>>)
        bonus == CountPresent(<<fs.subtotal>>) + CountPresent(<<fs.tax>>)
                 + CountPresent(<<fs.invoice_no>>)
        max_score == 2 * 3 + 3
    IN  Round2(2 * key + bonus, max_score)

\* src/main.py line 278
Main_needs_review(confidence) == confidence < REVIEW_THRESHOLD

\* src/app.py process_pdf lines 313-315: the score and the flag of a record
AppScored(amount, issue_date, vendor) ==
    LET confidence == App_calculate_confidence(amount, issue_date, vendor)
    IN  [amount |-> amount, date |-> issue_date, vendor |-> vendor,
         confidence |-> confidence, needs_review |-> App_needs_review(confidence)]

\* src/main.py process_pdf lines 276-281: the score and the flag of the fields
MainScored(fs) ==
    LET confidence == Main_calculate_confidence(fs)
    IN  [vendor |-> fs.vendor, invoice_no |-> fs.invoice_no,
         issue_date |-> fs.issue_date, subtotal |-> fs.subtotal, tax |-> fs.tax,
         total |-> fs.total, confidence |-> confidence,
         needs_review |-> Main_needs_review(confidence)]

-----------------------------------------------------------------------------
(* src/app.py and src/main.py, the extractors of InvoiceProcessor.         *)

\* the other case of a cased character (re.IGNORECASE)
SwapCase(c) ==
    CASE c = "a" -> "A" [] c = "A" -> "a" [] c = "b" -> "B" [] c = "B" -> "b"
      [] c = "c" -> "C" [] c = "C" -> "c" [] c = "d" -> "D" [] c = "D" -> "d"
      [] c = "e" -> "E" [] c = "E" -> "e" [] c = "f" -> "F" [] c = "F" -> "f"
      [] c = "g" -> "G" [] c = "G" -> "g" [] c = "h" -> "H" [] c = "H" -> "h"
      [] c = "i" -> "I" [] c = "I" -> "i" [] c = "j" -> "J" [] c = "J" -> "j"
      [] c = "k" -> "K" [] c = "K" -> "k" [] c = "l" -> "L" [] c = "L" -> "l"
      [] c = "m" -> "M" [] c = "M" -> "m" [] c = "n" -> "N" [] c = "N" -> "n"
      [] c = "o" -> "O" [] c = "O" -> "o" [] c = "p" -> "P" [] c = "P" -> "p"
      [] c = "q" -> "Q" [] c = "Q" -> "q" [] c = "r" -> "R" [] c = "R" -> "r"
      [] c = "s" -> "S" [] c = "S" -> "s" [] c = "t" -> "T" [] c = "T" -> "t"
      [] c = "u" -> "U" [] c = "U" -> "u" [] c = "v" -> "V" [] c = "V" -> "v"
      [] c = "w" -> "W" [] c = "W" -> "w" [] c = "x" -> "X" [] c = "X" -> "x"
      [] c = "y" -> "Y" [] c = "Y" -> "y" [] c = "z" -> "Z" [] c = "Z" -> "z"
      [] OTHER -> c
\* a character class and a literal under re.IGNORECASE
ClsI(S) == Cls(S \cup {SwapCase(c) : c \in S})
LitI(s) == Cat([j \in 1..Len(s) |-> ClsI({s[j]})])

\* float(s) for a string over the alphabet: digits with at most one point and
\* at least one digit; None stands for ValueError.  (Signs, exponents, inf,
\* nan and underscores are not characters a pattern's group can hold.)
RECURSIVE StripZeros(_, _)
StripZeros(m, e) ==
    IF e > 0 /\ m % 10 = 0 THEN StripZeros(m \div 10, e - 1) ELSE FloatNum(m, e)
\* float(s): None stands for ValueError
PyFloat(s) ==
    LET parts == Split(s, ".")
        digits == SelectSeq(s, LAMBDA c : c \in Digit)
    IN  IF /\ \A j \in 1..Len(s) : s[j] \in Digit \cup {"."}
           /\ Len(parts) <= 2
           /\ digits # << >>
        THEN Some(StripZeros(DigitsValue(digits),
                             IF Len(parts) = 2 THEN Len(parts[2]) ELSE 0))
        ELSE None

\* the class written [\\d,] in the raw pattern strings: a backslash, the
\* letter d and a comma (not a digit class)
BackslashDComma == {"\\", "d", ","}
LabelGap == Space \cup {":", "FWCOLON"}
\* ([\\d,]+\.?\d*) as group n
NumberGroup(n) ==
    Grp(n, Cat(<< Plus(ClsI(BackslashDComma)), Opt(Cls({"."})), Star(Cls(Digit)) >>))

\* src/app.py AMOUNT_PATTERNS, compiled with re.IGNORECASE
App_AMOUNT_PATTERNS ==
    << Cat(<< LitI(<<"GOU", "KEI">>), Star(Cls(LabelGap)), NumberGroup(1) >>),
       Cat(<< LitI(<<"SEI", "KYUU", "KIN", "GAKU">>), Star(Cls(LabelGap)),
              NumberGroup(1) >>),
       Cat(<< Cls({"YEN"}), Opt(Cls(Space)), Grp(1, Plus(ClsI(BackslashDComma))) >>),
       Cat(<< LitI(<<"J", "P", "Y">>), Opt(Cls(Space)),
              Grp(1, Plus(ClsI(BackslashDComma))) >>) >>

\* the loop of extract_amount from pattern k on: the first pattern that
\* matches and whose group parses; matched is the group it parsed
RECURSIVE App_extract_amount_from(_, _)
App_extract_amount_from(t, k) ==
    IF k > Len(App_AMOUNT_PATTERNS) THEN [amount |-> None, matched |-> << >>]
    ELSE LET match == Search(App_AMOUNT_PATTERNS[k], t)
         IN  IF match.found
             THEN LET amount_str == Replace(Group(t, match, 1), ",", << >>)
                  IN  IF PyFloat(amount_str) # None
                      THEN [amount |-> PyFloat(amount_str),
                            matched |-> Group(t, match, 1)]
                      ELSE App_extract_amount_from(t, k + 1)
             ELSE App_extract_amount_from(t, k + 1)
App_extract_amount(t) == App_extract_amount_from(t, 1).amount

\* src/main.py extract_amounts: label, optional yen sign as group 1, the
\* number as group 2
MainAmountPattern(label) ==
    Cat(<< LitI(label), Star(Cls(LabelGap)), Grp(1, Opt(Cls({"FWYEN", "YEN"}))),
           NumberGroup(2) >>)
subtotal_patterns ==
    << MainAmountPattern(<<"SHOU", "KEI">>), MainAmountPattern(<<"ZEI", "NUKI">>) >>
tax_patterns ==
    << MainAmountPattern(<<"ZEI", "GAKU">>), MainAmountPattern(<<"KESU", "HI", "ZEI">>) >>
total_patterns ==
    << MainAmountPattern(<<"GOU", "KEI">>),
       MainAmountPattern(<<"SEI", "KYUU", "KIN", "GAKU">>) >>

\* one of the three loops of extract_amounts, from pattern k on; the entry
\* is still None whenever a pattern is tried, so "not amounts[...]" holds
RECURSIVE Main_amount_from(_, _, _)
Main_amount_from(ps, t, k) ==
    IF k > Len(ps) THEN [amount |-> None, matched |-> << >>]
    ELSE LET match == Search(ps[k], t)
         IN  IF match.found
             THEN LET v == PyFloat(Replace(Group(t, match, 2), ",", << >>))
                  IN  IF v # None
                      THEN [amount |-> v, matched |-> Group(t, match, 2)]
                      ELSE Main_amount_from(ps, t, k + 1)
             ELSE Main_amount_from(ps, t, k + 1)
extract_amounts(t) ==
    [subtotal |-> Main_amount_from(subtotal_patterns, t, 1).amount,
     tax |-> Main_amount_from(tax_patterns, t, 1).amount,
     total |-> Main_amount_from(total_patterns, t, 1).amount]

\* DATE_PATTERNS
DateBody(seps) ==
    Grp(1, Cat(<< Rep(Cls(Digit), 4, 4), Cls(seps), Rep(Cls(Digit), 1, 2), Cls(seps),
                  Rep(Cls(Digit), 1, 2) >>))
LabelledDate(label) ==
    Cat(<< Lit(label), Opt(Cls({":", "FWCOLON"})), Opt(Cls(Space)),
           DateBody({"/", "-"}) >>)
KanjiDate ==
    Grp(1, Cat(<< Rep(Cls(Digit), 4, 4), Cls({"NEN"}), Rep(Cls(Digit), 1, 2),
                  Cls({"GATSU"}), Rep(Cls(Digit), 1, 2), Cls({"NICHI"}) >>))
App_DATE_PATTERNS ==
    << LabelledDate(<<"HATSU", "KOU", "NICHI">>), DateBody({".", "-"}), KanjiDate >>
Main_DATE_PATTERNS ==
    << LabelledDate(<<"HATSU", "KOU", "NICHI">>),
       LabelledDate(<<"SEI", "KYUU", "NICHI">>), DateBody({".", "-"}), KanjiDate >>

\* lines 262-271 of extract_issue_date: the separators unified, then three
\* parts padded; None when the parts are not three (the loop goes on)
NormalizeDate(date_str) ==
    LET d1 == SubClass(date_str, {"NEN", "GATSU"}, <<"-">>)
        d2 == SubClass(d1, {"NICHI"}, << >>)
        d3 == SubClass(d2, {".", "/"}, <<"-">>)
        parts == Split(d3, "-")
    IN  IF (\E j \in 1..Len(d3) : d3[j] = "-") /\ Len(parts) = 3
        THEN Some(ZFill(parts[1], 4) \o <<"-">> \o ZFill(parts[2], 2) \o <<"-">>
                  \o ZFill(parts[3], 2))
        ELSE None

RECURSIVE extract_issue_date_from(_, _, _)
extract_issue_date_from(ps, t, k) ==
    IF k > Len(ps) THEN None
    ELSE LET match == Search(ps[k], t)
         IN  IF match.found /\ NormalizeDate(Group(t, match, 1)) # None
             THEN NormalizeDate(Group(t, match, 1))
             ELSE extract_issue_date_from(ps, t, k + 1)
App_extract_issue_date(t) == extract_issue_date_from(App_DATE_PATTERNS, t, 1)
Main_extract_issue_date(t) == extract_issue_date_from(Main_DATE_PATTERNS, t, 1)

\* str.lower() of one character
LowerChar(c) ==
    CASE c = "A" -> "a" [] c = "B" -> "b" [] c = "C" -> "c" [] c = "D" -> "d"
      [] c = "E" -> "e" [] c = "F" -> "f" [] c = "G" -> "g" [] c = "H" -> "h"
      [] c = "I" -> "i" [] c = "J" -> "j" [] c = "K" -> "k" [] c = "L" -> "l"
      [] c = "M" -> "m" [] c = "N" -> "n" [] c = "O" -> "o" [] c = "P" -> "p"
      [] c = "Q" -> "q" [] c = "R" -> "r" [] c = "S" -> "s" [] c = "T" -> "t"
      [] c = "U" -> "u" [] c = "V" -> "v" [] c = "W" -> "w" [] c = "X" -> "x"
      [] c = "Y" -> "y" [] c = "Z" -> "z"
      [] OTHER -> c
LowerText(s) == [j \in 1..Len(s) |-> LowerChar(s[j])]

\* p in s: p is a substring of s
HasSubstring(s, p) ==
    \E j \in 0..(Len(s) - Len(p)) :
        (p # << >> => s[j + 1] = p[1]) /\ SubSeq(s, j + 1, j + Len(p)) = p

\* src/main.py lines 48-52; beyond the characters of the table above:
\*   YA U+30E4  MA U+30DE  UN U+904B  YU U+8F38  HON U+672C  YUUBIN U+90F5
\*   BIN U+4FBF SA U+4F50  KAWA U+5DDD KYUUKOU U+6025 RAKU U+697D TEN U+5929
VENDOR_HINTS ==
    << <<"A", "m", "a", "z", "o", "n">>,
       <<"G", "o", "o", "g", "l", "e">>,
       <<"M", "e", "t", "a">>,
       <<"F", "a", "c", "e", "b", "o", "o", "k">>,
       <<"S", "l", "a", "c", "k">>,
       <<"C", "l", "o", "u", "d", "f", "l", "a", "r", "e">>,
       <<"YA", "MA", "TO", "UN", "YU">>,
       <<"NICHI", "HON", "YUUBIN", "BIN">>,
       <<"SA", "KAWA", "KYUUKOU", "BIN">>,
       <<"RAKU", "TEN">>,
       <<"L", "I", "N", "E">>,
       <<"M", "i", "c", "r", "o", "s", "o", "f", "t">>,
       <<"A", "p", "p", "l", "e">>,
       <<"N", "e", "t", "f", "l", "i", "x">>,
       <<"A", "d", "o", "b", "e">>,
       <<"S", "a", "l", "e", "s", "f", "o", "r", "c", "e">>,
       <<"Z", "o", "o", "m">>,
       <<"G", "i", "t", "H", "u", "b">> >>

\* the name whose occurrence starts earliest in the text, instead of the first
\* name of the list
FirstHint_TextOrder(hints, t) ==
    LET lowered == [j \in 1..Len(t) |-> LowerChar(t[j])]
        At(h, p) == /\ p + Len(h) - 1 <= Len(lowered)
                    /\ \A k \in 1..Len(h) : lowered[p + k - 1] = LowerChar(h[k])
        starts == { p \in 1..Len(lowered) : \E j \in 1..Len(hints) : At(hints[j], p) }
    IN  IF starts = {} THEN None
        ELSE LET p == CHOOSE q \in starts : \A r \in starts : q <= r
                 j == CHOOSE i \in 1..Len(hints) :
                          /\ At(hints[i], p)
                          /\ \A l \in 1..(i - 1) : ~At(hints[l], p)
             IN  Some(hints[j])

\* lines 207-209: the first hint found in the text, whatever the case
RECURSIVE FirstHintIn(_, _)
FirstHintIn(hints, lowered) ==
    IF hints = << >> THEN None
    ELSE IF HasSubstring(lowered, LowerText(Head(hints))) THEN Some(Head(hints))
         ELSE FirstHintIn(Tail(hints), lowered)
FirstHint(hints, t) == FirstHintIn(hints, LowerText(t))

\* [a-zA-Z0-9\u3040-\u309F\u30A0-\u30FF\u4E00-\u9FAF\u3400-\u4DBF]: ASCII letters and
\* digits, kana and ideographs
CandidateChars == Letters \cup AsciiDigits \cup Kanji

\* re.findall of a run of candidate characters: the maximal runs of the line
\* (cur is a run that s goes on)
Runs(s, cs, cur) ==
    LET u == cur \o s
        starts == SelectSeq([j \in 1..Len(u) |-> j],
                            LAMBDA j : u[j] \in cs /\ (j = 1 \/ u[j - 1] \notin cs))
    IN  [k \in 1..Len(starts) |->
            SubSeq(u, starts[k],
                   starts[k] - 1 + ClassRun(cs, u, starts[k] - 1, Unbounded))]

\* the first element of a sequence that passes the length test, if any
RECURSIVE FirstCandidate(_)
FirstCandidate(cands) ==
    IF cands = << >> THEN None
    ELSE IF Len(Head(cands)) >= 3 /\ Len(Head(cands)) <= 50 THEN Some(Head(cands))
         ELSE FirstCandidate(Tail(cands))

\* lines 212-218: the first candidate of the first line that has one
RECURSIVE FirstLineCandidate(_)
FirstLineCandidate(lines) ==
    IF lines = << >> THEN None
    ELSE IF FirstCandidate(Runs(Strip(Head(lines)), CandidateChars, << >>)) # None
         THEN FirstCandidate(Runs(Strip(Head(lines)), CandidateChars, << >>))
         ELSE FirstLineCandidate(Tail(lines))

\* src/main.py InvoiceProcessor.extract_vendor
Main_extract_vendor(t) ==
    IF FirstHint(VENDOR_HINTS, t) # None THEN FirstHint(VENDOR_HINTS, t)
    ELSE FirstLineCandidate(Prefix(Split(t, "\n"), 10))

\* src/app.py lines 180-184: the same names in the same order
App_VENDOR_HINTS == VENDOR_HINTS
\* src/app.py InvoiceProcessor.extract_vendor, lines 277-293
App_extract_vendor(t) ==
    IF FirstHint(App_VENDOR_HINTS, t) # None THEN FirstHint(App_VENDOR_HINTS, t)
    ELSE FirstLineCandidate(Prefix(Split(t, "\n"), 10))

\* [A-Za-z0-9-] under re.IGNORECASE
InvoiceNoChars == Letters \cup AsciiDigits \cup {"-"}
InvoiceNoTail ==
    Cat(<< Opt(Cls({":", "FWCOLON"})), Opt(Cls(Space)), Grp(1, Plus(Cls(InvoiceNoChars))) >>)
\* src/main.py lines 72-76; SHO U+66F8, BAN U+756A, GOO U+53F7
INVOICE_NO_PATTERNS ==
    << Cat(<< Lit(<<"SEI", "KYUU", "SHO", "BAN", "GOO">>), InvoiceNoTail >>),
       Cat(<< LitI(<<"I", "n", "v", "o", "i", "c", "e", " ", "N", "o">>),
              Opt(Cls({"."})), Opt(Cls(Space)), InvoiceNoTail >>),
       Cat(<< Lit(<<"BAN", "GOO">>), InvoiceNoTail >>) >>

\* src/main.py InvoiceProcessor.extract_invoice_no
RECURSIVE extract_invoice_no_from(_, _)
extract_invoice_no_from(ps, t) ==
    IF ps = << >> THEN None
    ELSE IF Search(Head(ps), t).found
         THEN Some(Strip(Group(t, Search(Head(ps), t), 1)))
         ELSE extract_invoice_no_from(Tail(ps), t)
extract_invoice_no(t) == extract_invoice_no_from(INVOICE_NO_PATTERNS, t)

\* src/main.py InvoiceProcessor.detect_currency; the dollar and euro signs
\* and the letters of USD and EUR other than D are outside the alphabet
detect_currency(t) ==
    IF \/ \E j \in 1..Len(t) : t[j] \in {"FWYEN", "YEN", "EN"}
       \/ HasSubstring(t, <<"J", "P", "Y">>)
    THEN <<"J", "P", "Y">>
    ELSE IF \/ \E j \in 1..Len(t) : t[j] = "$"
            \/ HasSubstring(t, <<"U", "S", "D">>)
    THEN <<"U", "S", "D">>
    ELSE IF \/ \E j \in 1..Len(t) : t[j] = "EURO"
            \/ HasSubstring(t, <<"E", "U", "R">>)
    THEN <<"E", "U", "R">>
    ELSE <<"J", "P", "Y">>

-----------------------------------------------------------------------------
(* src/app.py, the upload server: its state.                               *)

\* the request threads of the server
Threads == {1, 2}

\* a thread that serves no request.  Of a request, batch holds the files as
\* they were submitted, files those the loop goes through, idx the turn of the
\* loop and read the turns in which the content of the file was read.
Idle ==
    [kind |-> "idle", pc |-> "idle", sid |-> 0, fresh |-> FALSE,
     batch |-> << >>, files |-> << >>, idx |-> 0, results |-> << >>,
     errors |-> << >>, row |-> None, ref |-> 0, log |-> << >>, resp |-> None,
     read |-> {}]

\* The configuration: service_account_json and sheet_id are what load_config
\* returns (data/config.json overridden by the environment variables
\* GSPREAD_CREDENTIALS_JSON and SHEET_ID); GOOGLE_SERVICE_ACCOUNT_JSON and
\* SHEET_ID are the environment variables of lines 171-172, None when unset
\* or empty.  Credentials are "credentials" (a usable service-account key) or
\* "garbled" (a text that is no such key).
\* Without credentials, and with them:
NoConfig == [service_account_json |-> None, sheet_id |-> None,
             GOOGLE_SERVICE_ACCOUNT_JSON |-> None, SHEET_ID |-> None]
SheetConfig == [service_account_json |-> Some("credentials"),
                sheet_id |-> Some("sheet-1"),
                GOOGLE_SERVICE_ACCOUNT_JSON |-> Some("credentials"),
                SHEET_ID |-> Some("sheet-1")]
\* the same with credentials that cannot be used
GarbledConfig == [service_account_json |-> Some("garbled"),
                  sheet_id |-> Some("sheet-1"),
                  GOOGLE_SERVICE_ACCOUNT_JSON |-> Some("garbled"),
                  SHEET_ID |-> Some("sheet-1")]
\* credentials without a sheet id
NoSheetConfig == [service_account_json |-> Some("credentials"), sheet_id |-> None,
                  GOOGLE_SERVICE_ACCOUNT_JSON |-> Some("credentials"),
                  SHEET_ID |-> None]
\* credentials and sheet id in data/config.json only
FileConfig == [service_account_json |-> Some("credentials"),
               sheet_id |-> Some("sheet-1"),
               GOOGLE_SERVICE_ACCOUNT_JSON |-> None, SHEET_ID |-> None]

\* src/launch.py is not run: the server is started by other means
NoLauncher == [pc |-> "absent"]

\* no InvoiceProcessor yet
NotConstructed == [constructed |-> FALSE, sheets_service |-> None]

\* lines 205-221: the constructor's call of _initialize_sheets_service with
\* the environment of cfg; raised tells that it raised Exception
_initialize_sheets_service(cfg) ==
    IF cfg.GOOGLE_SERVICE_ACCOUNT_JSON = None \/ cfg.SHEET_ID = None
    THEN [raised |-> FALSE, sheets_service |-> None]
    ELSE IF cfg.GOOGLE_SERVICE_ACCOUNT_JSON = Some("garbled")
    THEN [raised |-> TRUE, sheets_service |-> None]
    ELSE [raised |-> FALSE, sheets_service |-> Some("sheets v4")]

\* lines 200-203: the InvoiceProcessor that the constructor leaves when it
\* returns
InvoiceProcessor(cfg) ==
    [constructed |-> TRUE,
     sheets_service |-> _initialize_sheets_service(cfg).sheets_service]

\* the remote spreadsheet before any append: its first worksheet, which
\* src/main.py writes to, is empty; the worksheet that src/app.py writes to
\* does not exist yet
NoRows == [invoices |-> None, sheet1 |-> << >>]

\* the server just started: no session, no stored list, no request
ServerIdle ==
    /\ _STORE = << >>
    /\ heap = << >>
    /\ issued = 0
    /\ sheet = NoRows
    /\ req = [t \in Threads |-> Idle]
    /\ served = 0

-----------------------------------------------------------------------------
(* The scorers, applied to every combination of absent and present fields. *)
Str_2024_03_01 == <<"2", "0", "2", "4", "-", "0", "3", "-", "0", "1">>
Str_2024_3_1 == <<"2", "0", "2", "4", "-", "3", "-", "1">>
Str_Vendor == <<"KABU", "SHIKI", "KAI", "SHA", "TE", "SU", "TO">>
AmountVals == {None, Some(IntNum(0)), Some(IntNum(12345)), Some(FloatNum(5, 1))}
DateVals == {None, Some(Str_2024_03_01), Some(Str_2024_3_1)}
VendorVals == {None, Some(<< >>), Some(Str_Vendor)}
SubtotalVals == {None, Some(FloatNum(0, 0)), Some(FloatNum(100, 0))}
TaxVals == {None, Some(FloatNum(10, 0))}
InvoiceNoVals == {None, Some(<<"a", "-", "1">>)}

NoFields == [amount |-> None, date |-> None, vendor |-> None,
             subtotal |-> None, tax |-> None, invoice_no |-> None]
NoRet == [fn |-> "none", val |-> << >>]
\* the call did not return: exception exc left the function by
Raised(by, exc) == [fn |-> "raised", val |-> [by |-> by, exc |-> exc]]

InitScore ==
    /\ fields \in [amount : AmountVals, date : DateVals, vendor : VendorVals,
                   subtotal : SubtotalVals, tax : TaxVals,
                   invoice_no : InvoiceNoVals]
    /\ text = << >>
    /\ ret = NoRet
    /\ ServerIdle /\ config = NoConfig /\ remote = "ok"
    /\ processor = NotConstructed
    /\ launcher = NoLauncher

ScoreJp ==
    /\ ret = NoRet
    /\ ret' = [fn |-> "extract_fields_jp",
               val |-> JpRecord(fields.amount, fields.date, fields.vendor)]
    /\ UNCHANGED <<fields, text, serverVars>>

ScoreApp ==
    /\ ret = NoRet
    /\ ret' = [fn |-> "app.process_pdf",
               val |-> AppScored(fields.amount, fields.date, fields.vendor)]
    /\ UNCHANGED <<fields, text, serverVars>>

ScoreMain ==
    /\ ret = NoRet
    /\ ret' = [fn |-> "main.process_pdf",
               val |-> MainScored([vendor |-> fields.vendor,
                                   invoice_no |-> fields.invoice_no,
                                   issue_date |-> fields.date,
                                   subtotal |-> fields.subtotal,
                                   tax |-> fields.tax,
                                   total |-> fields.amount])]
    /\ UNCHANGED <<fields, text, serverVars>>

NextScore == ScoreJp \/ ScoreApp \/ ScoreMain

SpecScore == InitScore /\ [][NextScore]_vars

-----------------------------------------------------------------------------
(* The extractors, each applied once to a text made of an amount line, a   *)
(* date line and a vendor line (each possibly absent) in several orders, or*)
(* to the three lines of the documented example behind up to MaxLead filler*)
(* lines.                                                                  *)
NoLine == <<"-", "-">>
\* U+5408 U+8A08 " " U+00A5 "12,345"
Line_Total == <<"GOU", "KEI", " ", "YEN", "1", "2", ",", "3", "4", "5">>
AmountLines ==
    { NoLine,
      Line_Total,
      <<"GO", "SEI", "KYUU", "KIN", "GAKU", " ", "1", ",", "2", "3", "4", ",",
        "5", "6", "7", "EN">>,
      <<"GOU", "KEI", "1", "2", "3", "4", ",", "5", "6", "7">>,
      <<"GOU", "KEI", ":", " ", ",", "1", "2", ",", "3", "4", "5">>,
      <<"SEI", "KYUU", "KIN", "GAKU", " ", ",", ".", "5", "0">>,
      <<"SHOU", "KEI", " ", "YEN", ",", "1", ",", "0", "0", "0", " ",
        "ZEI", "GAKU", " ", "d", "5", " ", "GOU", "KEI", " ", "FWYEN", ",", "7">>,
      <<"YEN", ",", ",">>,
      <<"GOU", "KEI", " ", "d", " ", "SEI", "KYUU", "KIN", "GAKU", " ", ",", "7">> }
\* U+767A U+884C U+65E5 " 2024/03/01"
Line_Issued == <<"HATSU", "KOU", "NICHI", " ", "2", "0", "2", "4", "/", "0", "3",
                 "/", "0", "1">>
DateLines ==
    { NoLine,
      Line_Issued,
      <<"HATSU", "KOU", "NICHI", " ", "2", "0", "2", "4", "/", "3", "/", "1">>,
      <<"2", "0", "2", "4", "NEN", "3", "GATSU", "1", "NICHI">>,
      <<"SEI", "KYUU", "NICHI", "FWCOLON", "2", "0", "2", "4", "-", "1", "-",
        "1", "5">>,
      <<"NOU", "HIN", "NICHI", " ", "2", "0", "2", "4", ".", "1", "2", ".", "5">>,
      <<"HATSU", "KOU", "NICHI", " ", "FW2", "0", "FW2", "4", "NEN", " ", "FW1",
        "GATSU", "FW2", "NICHI">> }
\* U+682A U+5F0F U+4F1A U+793E U+30C6 U+30B9 U+30C8
Line_Company == <<"KABU", "SHIKI", "KAI", "SHA", "TE", "SU", "TO">>
VendorLines ==
    { NoLine,
      Line_Company,
      <<"a", "b", " ", "ON", "CHUU">>,
      <<"IDSP", "ON", "CHUU">> }
\* lines without an amount label, a date label, a company marker or an
\* honorific
FillerLines == { << >>, <<"a", "b">>, <<"SEI", "KYUU">>, <<"1", ",", "0", "0", "0">> }

\* the lines that are there, joined by line feeds
RECURSIVE Lines(_)
Lines(ls) ==
    IF ls = << >> THEN << >>
    ELSE IF Head(ls) = NoLine THEN Lines(Tail(ls))
         ELSE Head(ls) \o (IF Lines(Tail(ls)) = << >> THEN << >> ELSE <<"\n">>)
              \o Lines(Tail(ls))
Orders == { <<1, 2, 3>>, <<1, 3, 2>>, <<2, 1, 3>>, <<2, 3, 1>>, <<3, 1, 2>>, <<3, 2, 1>> }
Rotations == { <<1, 2, 3>>, <<2, 3, 1>>, <<3, 1, 2>> }
Ordered(o, ls) == <<ls[o[1]], ls[o[2]], ls[o[3]]>>

MaxLead == 9
BaseTexts ==
    { Lines(Ordered(o, <<a, d, v>>)) :
        o \in Rotations, a \in AmountLines, d \in DateLines, v \in VendorLines }
LeadTexts ==
    { Lines([j \in 1..k |-> f] \o Ordered(o, <<Line_Total, Line_Issued, Line_Company>>)) :
        k \in 0..MaxLead, f \in FillerLines \ {<< >>}, o \in Orders }
\* U+5408 U+8A08, a blank and a numeral one digit longer than int() converts
Text_LongTotal ==
    <<"GOU", "KEI", " ">> \o [j \in 1..(INT_MAX_STR_DIGITS + 1) |-> "1"]
\* the example invoice followed by lines of filler, n characters in all
Padded(n) ==
    LET head == Lines(<<Line_Total, Line_Issued, Line_Company>>)
    IN  [j \in 1..n |-> IF j <= Len(head) THEN head[j]
                        ELSE IF (j - Len(head)) % 8 = 1 THEN "\n" ELSE "a"]
\* texts as long as an excerpt may be, and one character longer
EdgeTexts == { Padded(200), Padded(201), Padded(500), Padded(501) }
Texts == BaseTexts \cup LeadTexts \cup EdgeTexts \cup {Text_LongTotal}

InitExtract ==
    /\ text \in Texts
    /\ fields = NoFields
    /\ ret = NoRet
    /\ ServerIdle /\ config = NoConfig /\ remote = "ok"
    /\ processor = NotConstructed
    /\ launcher = NoLauncher

ApplyExtractFieldsJp ==
    /\ ret = NoRet
    /\ ret' = IF extract_fields_jp_raises(text)
              THEN Raised("extract_fields_jp", "ValueError")
              ELSE [fn |-> "extract_fields_jp", val |-> extract_fields_jp(text)]
    /\ UNCHANGED <<fields, text, serverVars>>

ApplyAppExtractAmount ==
    /\ ret = NoRet
    /\ ret' = [fn |-> "app.extract_amount", val |-> App_extract_amount(text)]
    /\ UNCHANGED <<fields, text, serverVars>>

ApplyMainExtractAmounts ==
    /\ ret = NoRet
    /\ ret' = [fn |-> "main.extract_amounts", val |-> extract_amounts(text)]
    /\ UNCHANGED <<fields, text, serverVars>>

ApplyAppExtractIssueDate ==
    /\ ret = NoRet
    /\ ret' = [fn |-> "app.extract_issue_date", val |-> App_extract_issue_date(text)]
    /\ UNCHANGED <<fields, text, serverVars>>

ApplyMainExtractIssueDate ==
    /\ ret = NoRet
    /\ ret' = [fn |-> "main.extract_issue_date", val |-> Main_extract_issue_date(text)]
    /\ UNCHANGED <<fields, text, serverVars>>

-----------------------------------------------------------------------------
(* The excerpt of the text that a record keeps.                            *)

\* text[:500] of the upload row and of the worksheet row
EXCERPT_LEN == 500
\* src/app.py upload_files line 1157: text[:500]
Upload_raw_excerpt(txt) == Prefix(txt, EXCERPT_LEN)

\* src/main.py process_pdf line 273:
\* text[:500] + "..." if len(text) > 500 else text
Main_raw_text(txt) ==
    IF Len(txt) > EXCERPT_LEN THEN Prefix(txt, EXCERPT_LEN) \o <<".", ".", ".">>
    ELSE txt

\* src/app.py process_pdf lines 317-320: the first 200 characters, stripped,
\* and the marker when the text is longer
APP_EXCERPT_LEN == 200
App_raw_excerpt(txt) ==
    IF Len(txt) > APP_EXCERPT_LEN
    THEN Strip(Prefix(txt, APP_EXCERPT_LEN)) \o <<".", ".", ".">>
    ELSE Strip(Prefix(txt, APP_EXCERPT_LEN))

ApplyAppRawExcerpt ==
    /\ ret = NoRet
    /\ ret' = [fn |-> "app.raw_excerpt", val |-> App_raw_excerpt(text)]
    /\ UNCHANGED <<fields, text, serverVars>>

\* src/app.py upload_files line 1157
ApplyUploadRawExcerpt ==
    /\ ret = NoRet
    /\ ret' = [fn |-> "upload.raw_excerpt", val |-> Upload_raw_excerpt(text)]
    /\ UNCHANGED <<fields, text, serverVars>>

\* src/main.py process_pdf line 273
ApplyMainRawText ==
    /\ ret = NoRet
    /\ ret' = [fn |-> "main.raw_text", val |-> Main_raw_text(text)]
    /\ UNCHANGED <<fields, text, serverVars>>

NextExtract ==
    \/ ApplyExtractFieldsJp
    \/ ApplyAppExtractAmount
    \/ ApplyMainExtractAmounts
    \/ ApplyAppExtractIssueDate
    \/ ApplyMainExtractIssueDate
    \/ ApplyAppRawExcerpt
    \/ ApplyUploadRawExcerpt
    \/ ApplyMainRawText

SpecExtract == InitExtract /\ [][NextExtract]_vars

-----------------------------------------------------------------------------
(* extract_vendor, applied to texts made of up to three words, some of     *)
(* which hold a listed name in another case, on one line or on several, and*)
(* to texts of more than ten lines.                                        *)

VendorWords ==
    { <<"a", "m", "a", "z", "o", "n">>,
      <<"G", "O", "O", "G", "L", "E">>,
      <<"M", "e", "t", "a">>,
      <<"m", "e", "t", "a", "d", "a", "t", "a">>,
      <<"RAKU", "TEN">>,
      <<"L", "i", "N", "e">>,
      <<"a", "b">>,
      <<"KABU", "SHIKI", "KAI", "SHA", "TE", "SU", "TO">>,
      <<"a", "b", "c", "1", "2">>,
      <<"m", "e", " ", "t", "a">>,
      <<"-", "-">>,
      [j \in 1..51 |-> "x"] }
WordGaps == { <<" ">>, <<"\n">>, << >> }
\* ten lines without a name or a candidate, and a line behind them
Behind(line) == [j \in 1..20 |-> IF j % 2 = 1 THEN "-" ELSE "\n"] \o line
VendorTexts ==
    VendorWords
      \cup { a \o g \o b : a \in VendorWords, b \in VendorWords, g \in WordGaps }
      \cup { a \o <<"\n">> \o b \o <<" ">> \o c :
                a \in VendorWords, b \in VendorWords, c \in VendorWords }
      \cup { Behind(w) : w \in VendorWords }

InitVendor ==
    /\ text \in VendorTexts
    /\ fields = NoFields
    /\ ret = NoRet
    /\ ServerIdle /\ config = NoConfig /\ remote = "ok"
    /\ processor = NotConstructed
    /\ launcher = NoLauncher

ApplyAppExtractVendor ==
    /\ ret = NoRet
    /\ ret' = [fn |-> "app.extract_vendor", val |-> App_extract_vendor(text)]
    /\ UNCHANGED <<fields, text, serverVars>>

ApplyMainExtractVendor ==
    /\ ret = NoRet
    /\ ret' = [fn |-> "main.extract_vendor", val |-> Main_extract_vendor(text)]
    /\ UNCHANGED <<fields, text, serverVars>>

NextVendor ==
    \/ ApplyAppExtractVendor
    \/ ApplyMainExtractVendor

SpecVendor == InitVendor /\ [][NextVendor]_vars

-----------------------------------------------------------------------------
(* src/app.py, the upload server: uploaded files and what one file yields. *)

MAX_FILES == 10
\* 3 * 1024 * 1024
MAX_SIZE == 3145728
ALLOWED_EXT == { <<".", "p", "d", "f">> }
ALLOWED_MIME == { "application/pdf" }
\* src/main.py: 10 * 1024 * 1024
MAX_FILE_SIZE == 10485760
ALLOWED_MIME_TYPES == { "application/pdf" }
ALLOWED_EXTENSIONS == { <<".", "p", "d", "f">> }

\* str.lower() on the letters a file name is made of
Lower(c) ==
    CASE c = "A" -> "a" [] c = "B" -> "b" [] c = "D" -> "d" [] c = "F" -> "f"
      [] c = "P" -> "p" [] c = "Y" -> "y" [] c = "J" -> "j" [] OTHER -> c
LowerStr(s) == [j \in 1..Len(s) |-> Lower(s[j])]

\* the last position of c in s, 0 when it is not there
LastIndex(s, c) ==
    IF \E j \in 1..Len(s) : s[j] = c
    THEN CHOOSE j \in 1..Len(s) : s[j] = c /\ \A k \in (j + 1)..Len(s) : s[k] # c
    ELSE 0

\* os.path.splitext(p)[1]: from the last dot of the last path component,
\* unless only dots come before it
SplitExt(p) ==
    LET sep == LastIndex(p, "/")
        dot == LastIndex(p, ".")
    IN  IF dot > sep /\ \E j \in (sep + 1)..(dot - 1) : p[j] # "."
        THEN SubSeq(p, dot, Len(p))
        ELSE << >>

\* s.endswith(suf)
EndsWith(s, suf) ==
    Len(s) >= Len(suf) /\ SubSeq(s, Len(s) - Len(suf) + 1, Len(s)) = suf

\* the characters werkzeug's secure_filename keeps: [A-Za-z0-9_.-]
IsSafeNameChar(c) ==
    c \in AsciiDigits \cup {"a", "b", "d", "f", "p", "y", "j", "A", "B", "D", "F",
                            "P", "Y", "J", "_", ".", "-"}
\* what .encode("ascii", "ignore") keeps
IsAscii(c) == c \notin Kanji \cup {"YEN", "FWYEN"}

\* '_'.join(s.split()): the words of s joined by underscores
RECURSIVE JoinWords(_, _, _)
JoinWords(s, out, gap) ==
    IF s = << >> THEN out
    ELSE IF Head(s) \in Space THEN JoinWords(Tail(s), out, TRUE)
         ELSE JoinWords(Tail(s),
                        out \o (IF gap /\ Len(out) > 0 THEN <<"_">> ELSE << >>)
                            \o <<Head(s)>>,
                        FALSE)

\* s.strip(chars)
RECURSIVE LStripChars(_, _)
LStripChars(s, cs) ==
    IF s # << >> /\ Head(s) \in cs THEN LStripChars(Tail(s), cs) ELSE s
RECURSIVE RStripChars(_, _)
RStripChars(s, cs) ==
    IF s # << >> /\ s[Len(s)] \in cs
    THEN RStripChars(SubSeq(s, 1, Len(s) - 1), cs)
    ELSE s
StripChars(s, cs) == RStripChars(LStripChars(s, cs), cs)

\* werkzeug.utils.secure_filename as upload_files calls it: compatibility
\* normalisation, non-ASCII characters dropped, path separators turned into
\* blanks, words joined by "_", unsafe characters dropped, "." and "_"
\* stripped from both ends
secure_filename(name) ==
    LET ascii == SelectSeq([j \in 1..Len(name) |-> NFKC(name[j])], IsAscii)
        words == JoinWords(Replace(ascii, "/", <<" ">>), << >>, FALSE)
    IN  StripChars(SelectSeq(words, IsSafeNameChar), {".", "_"})

Name_unknown_pdf == <<"u", "n", "k", "n", "o", "w", "n", ".", "p", "d", "f">>
Name_unknown == <<"u", "n", "k", "n", "o", "w", "n">>

(* An uploaded file: the name and the content type the client sent, and    *)
(* the content: its length in bytes and, when PyPDF2 can read it, the text *)
(* of each page.                                                           *)
UploadedFile(name, mime, size, readable, pages) ==
    [filename |-> name, content_type |-> mime,
     content |-> [size |-> size, readable |-> readable, pages |-> pages]]

\* the documented example invoice, named "a.pdf"
File_Invoice ==
    UploadedFile(<<"a", ".", "p", "d", "f">>, "application/pdf", 2048, TRUE,
                 << Lines(<<Line_Total, Line_Issued, Line_Company>>) >>)
\* two pages: an honorific with nothing before it, then a line with a quote
\* and a comma; named "b b.PDF"
File_Odd ==
    UploadedFile(<<"b", " ", "b", ".", "P", "D", "F">>, "application/pdf", 4096,
                 TRUE, << <<"IDSP", "ON", "CHUU">>, <<"a", "\"", "b", ",">> >>)
\* no page at all, exactly MAX_SIZE bytes, named U+8A08 ".pdf"
File_Blank ==
    UploadedFile(<<"KEI", ".", "p", "d", "f">>, "application/pdf", MAX_SIZE, TRUE,
                 << >>)
\* not a PDF: "b.py"
File_Script ==
    UploadedFile(<<"b", ".", "p", "y">>, "text/x-python", 512, TRUE, << >>)
\* a PDF name with another content type
File_Mislabelled ==
    UploadedFile(<<"d", ".", "p", "d", "f">>, "application/octet-stream", 512,
                 TRUE, << >>)
\* one byte over MAX_SIZE
File_Large ==
    UploadedFile(<<"a", ".", "p", "d", "f">>, "application/pdf", MAX_SIZE + 1,
                 TRUE, << Line_Issued >>)
\* one byte over MAX_FILE_SIZE
File_Huge ==
    UploadedFile(<<"a", ".", "p", "d", "f">>, "application/pdf",
                 MAX_FILE_SIZE + 1, TRUE, << Line_Issued >>)
\* a PDF that PyPDF2 cannot read (damaged or password-protected)
File_Broken ==
    UploadedFile(<<"y", ".", "p", "d", "f">>, "application/pdf", 1024, FALSE,
                 << >>)
\* a readable PDF whose total is a numeral too long for int(): "j.pdf"
File_LongTotal ==
    UploadedFile(<<"j", ".", "p", "d", "f">>, "application/pdf", 8192, TRUE,
                 << Text_LongTotal >>)
\* a part without a file name
File_NoName ==
    UploadedFile(<< >>, "application/octet-stream", 0, TRUE, << >>)

\* extract_text_from_pdf: the text of every page, each followed by a line
\* feed; None when PdfReader raises
RECURSIVE PagesText(_)
PagesText(pages) ==
    IF pages = << >> THEN << >>
    ELSE Head(pages) \o <<"\n">> \o PagesText(Tail(pages))
extract_text_from_pdf(content) ==
    IF content.readable THEN Some(PagesText(content.pages)) ELSE None

\* an entry of the errors list; file is None in the NO_FILE entry
ErrorEntry(file, code, message) == [file |-> file, code |-> code, message |-> message]

\* lines 1149-1158: the row of a file, given its text and what
\* extract_fields_jp made of it
UploadRowOf(filename, f, txt) ==
    [file |-> filename, date |-> f.date, amount |-> f.amount,
     vendor |-> f.vendor, confidence |-> f.confidence,
     needs_review |-> f.needs_review,
     raw_excerpt |-> Upload_raw_excerpt(txt)]
\* lines 1147-1158: the row of a file whose text was read
UploadRow(filename, txt) == UploadRowOf(filename, extract_fields_jp(txt), txt)

\* lines 1110-1158 and 1172-1178: what the loop body makes of one file before
\* it touches the session: an error entry, or the row
App_file_outcome(file) ==
    LET filename == IF file.filename # << >> THEN secure_filename(file.filename)
                    ELSE Name_unknown_pdf
        txt == extract_text_from_pdf(file.content)
    IN  IF file.filename = << >>
        THEN [ok |-> FALSE,
              entry |-> ErrorEntry(Some(filename), "INVALID_TYPE", "pdf only")]
        ELSE IF \/ SplitExt(LowerStr(file.filename)) \notin ALLOWED_EXT
                \/ file.content_type \notin ALLOWED_MIME
        THEN [ok |-> FALSE,
              entry |-> ErrorEntry(Some(filename), "INVALID_TYPE", "pdf only")]
        ELSE IF file.content.size > MAX_SIZE
        THEN [ok |-> FALSE,
              entry |-> ErrorEntry(Some(filename), "TOO_LARGE", "over 3MB")]
        ELSE IF txt = None
        THEN [ok |-> FALSE,
              entry |-> ErrorEntry(Some(filename), "PROCESSING_ERROR",
                                   "failed: Invalid PDF file format or password-protected")]
        ELSE IF extract_fields_jp_raises(Get(txt))
        THEN [ok |-> FALSE,
              entry |-> ErrorEntry(Some(filename), "PROCESSING_ERROR",
                                   "failed: Exceeds the limit (4300 digits) for integer string conversion")]
        ELSE [ok |-> TRUE, row |-> UploadRow(filename, Get(txt))]

-----------------------------------------------------------------------------
(* src/app.py, the upload server: the spreadsheet sink and the CSV writer. *)

DigitChar(d) ==
    CASE d = 0 -> "0" [] d = 1 -> "1" [] d = 2 -> "2" [] d = 3 -> "3"
      [] d = 4 -> "4" [] d = 5 -> "5" [] d = 6 -> "6" [] d = 7 -> "7"
      [] d = 8 -> "8" [] d = 9 -> "9"

\* str(n) of a non-negative int
RECURSIVE IntStr(_)
IntStr(n) ==
    IF n < 10 THEN <<DigitChar(n)>>
    ELSE Append(IntStr(n \div 10), DigitChar(n % 10))

\* str(x) of a float with at most two decimals, x given in hundredths
FloatStr(h) ==
    IntStr(h \div 100) \o <<".">>
        \o (IF h % 10 = 0 THEN <<DigitChar((h % 100) \div 10)>>
            ELSE <<DigitChar((h % 100) \div 10), DigitChar(h % 10)>>)

\* the text of an optional string, of an optional amount and of the flag
OptText(o) == IF o = None THEN << >> ELSE Get(o)
AmountText(o) == IF o = None THEN << >> ELSE IntStr(Get(o).m)
FlagText(f) ==
    IF f = "TRUE" THEN <<"T", "R", "U", "E">> ELSE <<"F", "A", "L", "S", "E">>

\* load_config() names both the credentials and the sheet
Configured(cfg) == cfg.service_account_json # None /\ cfg.sheet_id # None

\* line 109: the header row of a worksheet that get_worksheet creates
SHEET_HEADERS ==
    << <<"t", "i", "m", "e", "s", "t", "a", "m", "p">>,
       <<"f", "i", "l", "e">>,
       <<"v", "e", "n", "d", "o", "r">>,
       <<"d", "a", "t", "e">>,
       <<"a", "m", "o", "u", "n", "t">>,
       <<"c", "u", "r", "r", "e", "n", "c", "y">>,
       <<"c", "a", "t", "e", "g", "o", "r", "y">>,
       <<"d", "e", "s", "c", "r", "i", "p", "t", "i", "o", "n">>,
       <<"n", "o", "t", "e", "s">>,
       <<"c", "o", "n", "f", "i", "d", "e", "n", "c", "e">>,
       <<"n", "e", "e", "d", "s", "_", "r", "e", "v", "i", "e", "w">>,
       <<"r", "a", "w", "_", "e", "x", "c", "e", "r", "p", "t">>,
       <<"s", "o", "u", "r", "c", "e">> >>

\* get_worksheet(): ok tells whether a worksheet came back; the remote end
\* is "ok", "unreachable" (authorising or opening raises) or "rejecting"
\* (append_row raises); credentials that cannot be used make
\* from_service_account_info raise.  A missing worksheet is created and given
\* its header.
get_worksheet(cfg, rem, sh) ==
    IF ~Configured(cfg) THEN [ok |-> FALSE, sheet |-> sh, log |-> << >>]
    ELSE IF cfg.service_account_json = Some("garbled") \/ rem = "unreachable"
    THEN [ok |-> FALSE, sheet |-> sh, log |-> <<"Failed to get worksheet">>]
    ELSE IF sh # None THEN [ok |-> TRUE, sheet |-> sh, log |-> << >>]
    ELSE IF rem = "rejecting"
    THEN [ok |-> FALSE, sheet |-> Some(<< >>), log |-> <<"Failed to get worksheet">>]
    ELSE [ok |-> TRUE, sheet |-> Some(<<SHEET_HEADERS>>), log |-> << >>]

\* lines 125-139: the worksheet row of a payload, each cell as the text the
\* worksheet shows for it (nothing for None)
SheetRow(payload) ==
    << <<"n", "o", "w">>, payload.file, OptText(payload.vendor), OptText(payload.date),
       AmountText(payload.amount), <<"J", "P", "Y">>, << >>, << >>, << >>,
       FloatStr(payload.confidence), FlagText(payload.needs_review),
       Prefix(payload.raw_excerpt, EXCERPT_LEN), <<"u", "p", "l", "o", "a", "d">> >>

\* save_row_to_sheet(payload): the value it returns, the worksheet after it
\* and what it logged
save_row_to_sheet(payload, cfg, rem, sh) ==
    LET ws == get_worksheet(cfg, rem, sh)
    IN  IF ~ws.ok THEN [returned |-> FALSE, sheet |-> ws.sheet, log |-> ws.log]
        ELSE IF rem = "rejecting"
        THEN [returned |-> FALSE, sheet |-> ws.sheet,
              log |-> <<"Failed to save row to sheet">>]
        ELSE [returned |-> TRUE,
              sheet |-> Some(Append(Get(ws.sheet), SheetRow(payload))),
              log |-> << >>]

\* line 160
COLS ==
    << <<"f", "i", "l", "e">>, <<"d", "a", "t", "e">>,
       <<"a", "m", "o", "u", "n", "t">>, <<"v", "e", "n", "d", "o", "r">>,
       <<"c", "o", "n", "f", "i", "d", "e", "n", "c", "e">>,
       <<"n", "e", "e", "d", "s", "_", "r", "e", "v", "i", "e", "w">>,
       <<"r", "a", "w", "_", "e", "x", "c", "e", "r", "p", "t">> >>

\* what csv.writer writes for each value of line 1226: None is written as
\* the empty string, a number by str()
CsvCells(row) ==
    << row.file, OptText(row.date), AmountText(row.amount), OptText(row.vendor),
       FloatStr(row.confidence), FlagText(row.needs_review), row.raw_excerpt >>

\* the fields written as they are, whatever they hold
CsvField_Raw(s) == s

\* csv.writer, excel dialect, QUOTE_MINIMAL: a field holding the delimiter,
\* the quote character or a line-terminator character is quoted, its quotes
\* doubled
CsvField(s) ==
    IF \E j \in 1..Len(s) : s[j] \in {",", "\"", "\r", "\n"}
    THEN <<"\"">> \o Replace(s, "\"", <<"\"", "\"">>) \o <<"\"">>
    ELSE s

RECURSIVE JoinFields(_)
JoinFields(cells) ==
    IF Len(cells) = 1 THEN CsvField(cells[1])
    ELSE CsvField(cells[1]) \o <<",">> \o JoinFields(Tail(cells))

\* writer.writerow(cells): a lone empty field is written as two quotes; the
\* line ends with "\r\n"
writerow(cells) ==
    (IF cells = << << >> >> THEN <<"\"", "\"">> ELSE JoinFields(cells))
        \o <<"\r", "\n">>

\* lines 1218-1229: the header and one line per row
RECURSIVE CsvLines(_)
CsvLines(rows) ==
    IF rows = << >> THEN << >>
    ELSE writerow(CsvCells(Head(rows))) \o CsvLines(Tail(rows))
CsvContent(rows) == writerow(COLS) \o CsvLines(rows)

\* json.dumps(..., ensure_ascii=False) of a str: the quote, the backslash
\* and the control characters are escaped, every other character is written
\* as it is
JsonChar(c) ==
    CASE c = "\"" -> <<"\\", "\"">>
      [] c = "\\" -> <<"\\", "\\">>
      [] c = "\n" -> <<"\\", "n">>
      [] c = "\r" -> <<"\\", "r">>
      [] c = "\t" -> <<"\\", "t">>
      [] OTHER -> <<c>>
RECURSIVE JsonCharsIn(_, _, _)
JsonCharsIn(s, lo, hi) ==
    IF lo > hi THEN << >>
    ELSE IF lo = hi THEN JsonChar(s[lo])
    ELSE JsonCharsIn(s, lo, (lo + hi) \div 2)
            \o JsonCharsIn(s, (lo + hi) \div 2 + 1, hi)
JsonString(s) == <<"\"">> \o JsonCharsIn(s, 1, Len(s)) \o <<"\"">>
\* of an optional str and of an optional int
JsonOptString(o) == IF o = None THEN <<"n", "u", "l", "l">> ELSE JsonString(Get(o))
JsonOptInt(o) == IF o = None THEN <<"n", "u", "l", "l">> ELSE IntStr(Get(o).m)

\* the values of a row in the order of its keys (lines 1150-1158)
JsonValues(row) ==
    << JsonString(row.file), JsonOptString(row.date), JsonOptInt(row.amount),
       JsonOptString(row.vendor), FloatStr(row.confidence),
       JsonString(FlagText(row.needs_review)), JsonString(row.raw_excerpt) >>

\* parts[from], parts[from + 1], ... with sep between them
RECURSIVE JoinFrom(_, _, _)
JoinFrom(parts, sep, from) ==
    IF from > Len(parts) THEN << >>
    ELSE IF from = Len(parts) THEN parts[from]
    ELSE parts[from] \o sep \o JoinFrom(parts, sep, from + 1)

\* json.dumps(row, indent=2) of a row that stands in a list
JsonObject(row) ==
    <<"{", "\n">>
        \o JoinFrom([k \in 1..Len(COLS) |->
                        <<" ", " ", " ", " ">> \o JsonString(COLS[k])
                            \o <<":", " ">> \o JsonValues(row)[k]],
                    <<",", "\n">>, 1)
        \o <<"\n", " ", " ", "}">>

\* line 1205: json.dumps(results, ensure_ascii=False, indent=2) of a list
\* that is not empty
JsonContent(rows) ==
    <<"[", "\n">>
        \o JoinFrom([k \in 1..Len(rows) |-> <<" ", " ">> \o JsonObject(rows[k])],
                    <<",", "\n">>, 1)
        \o <<"\n", "]">>

-----------------------------------------------------------------------------
(* src/app.py, the upload server: sessions and handlers.  A handler runs   *)
(* on a thread; it is cut where another thread can run between two of its  *)
(* accesses to _STORE, to a stored list or to the spreadsheet.             *)

\* sessions, requests served one at a time, requests served two at a time
MaxSessions == 2
MaxRequests == 2
MaxConcurrent == 3

\* the uploaded files of the batches below, and what the loop body makes of
\* each
Catalog ==
    { File_Invoice, File_Odd, File_Blank, File_Script, File_Mislabelled,
      File_Large, File_Huge, File_Broken, File_LongTotal, File_NoName }
FileOutcome == [f \in Catalog |-> App_file_outcome(f)]

\* the batches a client sends
Batches ==
    { << >>,
      <<File_NoName>>,
      <<File_Invoice>>,
      <<File_Broken>>,
      <<File_Odd, File_Blank>>,
      <<File_Script, File_Large>>,
      <<File_Invoice, File_Script, File_Odd>>,
      <<File_Large, File_Blank, File_Mislabelled>>,
      <<File_Odd, File_Broken, File_Invoice>>,
      <<File_Blank, File_NoName, File_Invoice>>,
      <<File_Invoice, File_LongTotal, File_Odd>>,
      [j \in 1..(MAX_FILES + 1) |-> IF j = 2 THEN File_Script ELSE File_Blank],
      [j \in 1..(MAX_FILES + 2) |-> IF j > MAX_FILES THEN File_Invoice ELSE File_Broken],
      [j \in 1..(MAX_FILES + 1) |-> IF j > MAX_FILES THEN File_Invoice ELSE File_Odd] }

\* the batches of two requests that run at the same time
SmallBatches ==
    { <<File_Invoice>>, <<File_Script, File_Odd>>, <<File_Broken>> }

\* dict item assignment: d[k] = v
Put(d, k, v) == [x \in (DOMAIN d) \cup {k} |-> IF x = k THEN v ELSE d[x]]

\* a new empty list object, made for the key it is first stored under
NewList(key) == [key |-> key, items |-> << >>]

\* the session ids a request can carry: those a response has delivered
Cookies ==
    { c \in 1..issued : \A u \in Threads : ~(req[u].sid = c /\ req[u].fresh) }
Waiting == { u \in Threads : req[u].kind # "idle" /\ req[u].sid = 0 }
\* a request arrives on thread t with session cookie c (0: without one),
\* as one of the N requests the server gets
Arrives(t, c, N) ==
    /\ req[t].kind = "idle"
    /\ served < N
    /\ c = 0 => issued + Cardinality(Waiting) < MaxSessions
    /\ c # 0 => c \in Cookies
    /\ served' = served + 1

\* _sid(): the session's id, a new one when the session has none
_sid(r) == IF r.sid = 0 THEN issued + 1 ELSE r.sid
\* the request once _sid() has run in it
WithSid(r) == [r EXCEPT !.sid = _sid(r), !.fresh = (r.sid = 0) \/ r.fresh]
IssuedAfter(r) == IF r.sid = 0 THEN issued + 1 ELSE issued

\* every session stored under one key
_bucket_Shared(r) ==
    IF 1 \in DOMAIN _STORE
    THEN [ref |-> _STORE[1], store |-> _STORE, heap |-> heap]
    ELSE [ref |-> Len(heap) + 1, store |-> Put(_STORE, 1, Len(heap) + 1),
          heap |-> Append(heap, NewList(1))]

\* _bucket(): _STORE.setdefault(_sid(), []), as the reference of the list
\* with _STORE and the heap after the call
_bucket(r) ==
    IF _sid(r) \in DOMAIN _STORE
    THEN [ref |-> _STORE[_sid(r)], store |-> _STORE, heap |-> heap]
    ELSE [ref |-> Len(heap) + 1, store |-> Put(_STORE, _sid(r), Len(heap) + 1),
          heap |-> Append(heap, NewList(_sid(r)))]

\* the files past MAX_FILES dropped without an entry
TooMany_Silent(files) == SubSeq(files, 1, 0)

\* lines 1101-1106: the entries for the files past MAX_FILES
TooMany(files) ==
    [j \in 1..(IF Len(files) > MAX_FILES THEN Len(files) - MAX_FILES ELSE 0) |->
        ErrorEntry(Some(files[MAX_FILES + j].filename), "TOO_MANY", "max 10 files")]

\* the files past MAX_FILES reported and kept
StartUpload_AllFiles(t, batch, c, N) ==
    /\ Arrives(t, c, N)
    /\ req' = [req EXCEPT ![t] =
          IF batch = << >> \/ (Len(batch) = 1 /\ batch[1].filename = << >>)
          THEN [Idle EXCEPT !.kind = "upload", !.pc = "done", !.sid = c,
                            !.batch = batch,
                            !.resp = Some([status |-> 400, ok |-> FALSE,
                                           errors |-> <<ErrorEntry(None, "NO_FILE",
                                                                  "no file selected")>>])]
          ELSE [Idle EXCEPT !.kind = "upload", !.pc = "file", !.sid = c,
                            !.batch = batch,
                            !.files = batch, !.idx = 1,
                            !.errors = TooMany(batch)]]
    /\ UNCHANGED <<pureVars, _STORE, heap, issued, config, remote, sheet>>

\* lines 1087-1107: the request is read; without a file it is answered at
\* once, else the files past MAX_FILES are reported and dropped
StartUpload(t, batch, c, N) ==
    /\ Arrives(t, c, N)
    /\ req' = [req EXCEPT ![t] =
          IF batch = << >> \/ (Len(batch) = 1 /\ batch[1].filename = << >>)
          THEN [Idle EXCEPT !.kind = "upload", !.pc = "done", !.sid = c,
                            !.batch = batch,
                            !.resp = Some([status |-> 400, ok |-> FALSE,
                                           errors |-> <<ErrorEntry(None, "NO_FILE",
                                                                  "no file selected")>>])]
          ELSE [Idle EXCEPT !.kind = "upload", !.pc = "file", !.sid = c,
                            !.batch = batch,
                            !.files = Prefix(batch, MAX_FILES), !.idx = 1,
                            !.errors = TooMany(batch)]]
    /\ UNCHANGED <<pureVars, _STORE, heap, issued, config, remote, sheet>>

\* lines 1114-1132: the content of a file is read (file.read()) once its
\* name and its type passed
ContentRead(file) ==
    /\ file.filename # << >>
    /\ SplitExt(LowerStr(file.filename)) \in ALLOWED_EXT
    /\ file.content_type \in ALLOWED_MIME
\* the turns of the loop of r that read a content, the present one included
ReadSoFar(r) == IF ContentRead(r.files[r.idx]) THEN r.read \cup {r.idx} ELSE r.read

\* the loop body up to line 1161 for a file that made the outcome o, b being
\* what _bucket() returns
FileHandled(t, r, o, b) ==
    IF o.ok
    THEN /\ req' = [req EXCEPT ![t] =
                       [WithSid(r) EXCEPT !.pc = "append", !.row = Some(o.row),
                                          !.ref = b.ref, !.read = ReadSoFar(r)]]
         /\ _STORE' = b.store
         /\ heap' = b.heap
         /\ issued' = IssuedAfter(r)
    ELSE /\ req' = [req EXCEPT ![t].errors = Append(@, o.entry),
                               ![t].idx = @ + 1,
                               ![t].log =
                                   IF o.entry.code = "PROCESSING_ERROR"
                                   THEN Append(@, "Error processing file")
                                   ELSE @,
                               ![t].read = ReadSoFar(r)]
         /\ UNCHANGED <<_STORE, heap, issued>>

\* lines 1109-1161: the next file is validated and read; a rejected or
\* unreadable file adds its error entry, any other gets its row and the
\* session's list is looked up
UploadFile(t) ==
    /\ req[t].kind = "upload" /\ req[t].pc = "file"
    /\ req[t].idx <= Len(req[t].files)
    /\ FileHandled(t, req[t], FileOutcome[req[t].files[req[t].idx]], _bucket(req[t]))
    /\ UNCHANGED <<pureVars, config, remote, sheet, served>>

\* the row put in front of the rows the list holds
UploadAppend_Front(t) ==
    LET r == req[t]
    IN  /\ r.kind = "upload" /\ r.pc = "append"
        /\ heap' = [heap EXCEPT ![r.ref].items = <<Get(r.row)>> \o @]
        /\ req' = [req EXCEPT ![t].results = Append(@, Get(r.row)),
                              ![t].pc = "sheet"]
        /\ UNCHANGED <<pureVars, _STORE, issued, config, remote, sheet, served>>

\* the row reaching results with its review flag cleared
UploadAppend_Reviewed(t) ==
    LET r == req[t]
    IN  /\ r.kind = "upload" /\ r.pc = "append"
        /\ heap' = [heap EXCEPT ![r.ref].items = Append(@, Get(r.row))]
        /\ req' = [req EXCEPT ![t].results =
                                  Append(@, [Get(r.row) EXCEPT !.needs_review = "FALSE"]),
                              ![t].pc = "sheet"]
        /\ UNCHANGED <<pureVars, _STORE, issued, config, remote, sheet, served>>

\* lines 1161-1162: the row is appended to the list that was looked up and
\* to the results
UploadAppend(t) ==
    LET r == req[t]
    IN  /\ r.kind = "upload" /\ r.pc = "append"
        /\ heap' = [heap EXCEPT ![r.ref].items = Append(@, Get(r.row))]
        /\ req' = [req EXCEPT ![t].results = Append(@, Get(r.row)),
                              ![t].pc = "sheet"]
        /\ UNCHANGED <<pureVars, _STORE, issued, config, remote, sheet, served>>

\* a failed save reported as a processing error of the file
AfterSave_Reported(r, saved) ==
    IF saved THEN r.errors
    ELSE Append(r.errors,
                ErrorEntry(Some(Get(r.row).file), "PROCESSING_ERROR", "failed: sheet"))

\* lines 1167-1170: the errors list after the save was tried: whatever
\* save_row_to_sheet returned or raised, nothing is added
AfterSave(r, saved) == r.errors

\* lines 1165-1170 once save_row_to_sheet has answered s; the loop goes on
\* to the next file
SaveTried(t, r, s) ==
    /\ sheet' = [sheet EXCEPT !.invoices = s.sheet]
    /\ req' = [req EXCEPT ![t] =
                  [r EXCEPT !.pc = "file", !.idx = @ + 1, !.row = None, !.ref = 0,
                            !.log = @ \o s.log,
                            !.errors = AfterSave(r, s.returned)]]

\* the calls of the gspread client are made without a timeout (none is
\* given at lines 98-99 of src/app.py or at lines 101-102 of src/main.py):
\* a call to a remote end that is "hanging" (it accepts the request and
\* never answers) does not return
Returns(cfg, rem) == Configured(cfg) => rem # "hanging"

\* lines 1165-1170: with a configured sheet the row is handed to
\* save_row_to_sheet; the loop goes on to the next file once it returned
UploadSheet(t) ==
    /\ req[t].kind = "upload" /\ req[t].pc = "sheet"
    /\ Returns(config, remote)
    /\ IF Configured(config)
       THEN SaveTried(t, req[t],
                      save_row_to_sheet(Get(req[t].row), config, remote, sheet.invoices))
       ELSE /\ sheet' = sheet
            /\ req' = [req EXCEPT ![t].pc = "file", ![t].idx = @ + 1,
                                  ![t].row = None, ![t].ref = 0]
    /\ UNCHANGED <<pureVars, _STORE, heap, issued, config, remote, served>>

\* every response a success, whatever the lists hold
UploadResponse_AlwaysOk(results, errors) ==
    IF errors # << >>
    THEN [status |-> 200, ok |-> TRUE, results |-> results, errors |-> errors]
    ELSE [status |-> 200, ok |-> TRUE, results |-> results]

\* lines 1181-1189: the response of an upload
UploadResponse(results, errors) ==
    IF errors # << >> /\ results = << >>
    THEN [status |-> 400, ok |-> FALSE, errors |-> errors]
    ELSE IF errors # << >>
    THEN [status |-> 200, ok |-> TRUE, results |-> results, errors |-> errors]
    ELSE [status |-> 200, ok |-> TRUE, results |-> results]

\* the loop is over: the response is built
UploadRespond(t) ==
    LET r == req[t]
    IN  /\ r.kind = "upload" /\ r.pc = "file" /\ r.idx > Len(r.files)
        /\ req' = [req EXCEPT ![t].pc = "done",
                              ![t].resp = Some(UploadResponse(r.results, r.errors))]
        /\ UNCHANGED <<pureVars, _STORE, heap, issued, config, remote, sheet, served>>

\* the request answered without a new list for the session
Clear_KeepList(t, c, N) ==
    LET r == WithSid([Idle EXCEPT !.kind = "clear", !.sid = c])
    IN  /\ Arrives(t, c, N)
        /\ heap' = IF r.sid \in DOMAIN _STORE THEN heap ELSE Append(heap, NewList(r.sid))
        /\ _STORE' = IF r.sid \in DOMAIN _STORE THEN _STORE
                      ELSE Put(_STORE, r.sid, Len(heap) + 1)
        /\ issued' = IF c = 0 THEN issued + 1 ELSE issued
        /\ req' = [req EXCEPT ![t] =
                      [r EXCEPT !.pc = "done",
                                !.resp = Some([status |-> 200, ok |-> TRUE])]]
        /\ UNCHANGED <<pureVars, config, remote, sheet>>

\* lines 1191-1195, clear_results: the session's key gets a new empty list
Clear(t, c, N) ==
    LET r == WithSid([Idle EXCEPT !.kind = "clear", !.sid = c])
    IN  /\ Arrives(t, c, N)
        /\ heap' = Append(heap, NewList(r.sid))
        /\ _STORE' = Put(_STORE, r.sid, Len(heap) + 1)
        /\ issued' = IF c = 0 THEN issued + 1 ELSE issued
        /\ req' = [req EXCEPT ![t] =
                      [r EXCEPT !.pc = "done",
                                !.resp = Some([status |-> 200, ok |-> TRUE])]]
        /\ UNCHANGED <<pureVars, config, remote, sheet>>

\* lines 1214-1216, export_csv: the session's list is looked up; an empty
\* one is answered with an error
ExportCsvStart(t, c, N) ==
    LET r == [Idle EXCEPT !.kind = "export_csv", !.sid = c]
        b == _bucket(r)
    IN  /\ Arrives(t, c, N)
        /\ _STORE' = b.store
        /\ heap' = b.heap
        /\ issued' = IssuedAfter(r)
        /\ req' = [req EXCEPT ![t] =
                      IF b.heap[b.ref].items = << >>
                      THEN [WithSid(r) EXCEPT !.pc = "done", !.ref = b.ref,
                                              !.resp = Some([status |-> 400,
                                                             error |-> "No results to export"])]
                      ELSE [WithSid(r) EXCEPT !.pc = "write", !.ref = b.ref]]
        /\ UNCHANGED <<pureVars, config, remote, sheet>>

\* lines 1218-1236: the rows of the list are written out
ExportCsvWrite(t) ==
    LET r == req[t]
    IN  /\ r.kind = "export_csv" /\ r.pc = "write"
        /\ req' = [req EXCEPT ![t].pc = "done",
                              ![t].resp = Some([status |-> 200, mimetype |-> "text/csv",
                                                body |-> CsvContent(heap[r.ref].items)])]
        /\ UNCHANGED <<pureVars, _STORE, heap, issued, config, remote, sheet, served>>

\* lines 1200-1202, export_json: the session's list is looked up; an empty
\* one is answered with an error
ExportJsonStart(t, c, N) ==
    LET r == [Idle EXCEPT !.kind = "export_json", !.sid = c]
        b == _bucket(r)
    IN  /\ Arrives(t, c, N)
        /\ _STORE' = b.store
        /\ heap' = b.heap
        /\ issued' = IssuedAfter(r)
        /\ req' = [req EXCEPT ![t] =
                      IF b.heap[b.ref].items = << >>
                      THEN [WithSid(r) EXCEPT !.pc = "done", !.ref = b.ref,
                                              !.resp = Some([status |-> 400,
                                                             error |-> "No results to export"])]
                      ELSE [WithSid(r) EXCEPT !.pc = "write", !.ref = b.ref]]
        /\ UNCHANGED <<pureVars, config, remote, sheet>>

\* lines 1204-1209: the rows of the list are written out
ExportJsonWrite(t) ==
    LET r == req[t]
    IN  /\ r.kind = "export_json" /\ r.pc = "write"
        /\ req' = [req EXCEPT ![t].pc = "done",
                              ![t].resp = Some([status |-> 200,
                                                mimetype |-> "application/json",
                                                body |-> JsonContent(heap[r.ref].items)])]
        /\ UNCHANGED <<pureVars, _STORE, heap, issued, config, remote, sheet, served>>

\* lines 389-392, health_check: it answers without looking at the session
HealthCheck(t, N) ==
    /\ req[t].kind = "idle"
    /\ served < N
    /\ served' = served + 1
    /\ req' = [req EXCEPT ![t] =
                  [Idle EXCEPT !.kind = "healthz", !.pc = "done",
                               !.resp = Some([status |-> 200, ok |-> TRUE])]]
    /\ UNCHANGED <<pureVars, _STORE, heap, issued, config, remote, sheet>>

\* the response is sent; the thread is free again
Respond(t) ==
    /\ req[t].pc = "done"
    /\ req' = [req EXCEPT ![t] = Idle]
    /\ UNCHANGED <<pureVars, _STORE, heap, issued, config, remote, sheet, served>>

-----------------------------------------------------------------------------
(* src/main.py, the upload handler of the other deployment.  It keeps no   *)
(* session: every file of the batch becomes one entry of results.          *)

\* str(x) of a float m / 10^e (below 1e16, where Python writes no exponent)
RECURSIVE TenTo(_)
TenTo(e) == IF e = 0 THEN 1 ELSE 10 * TenTo(e - 1)
NumText(n) ==
    IF n.ty = "int" THEN IntStr(n.m)
    ELSE IF n.e = 0 THEN IntStr(n.m) \o <<".", "0">>
    ELSE IntStr(n.m \div TenTo(n.e)) \o <<".">> \o ZFill(IntStr(n.m % TenTo(n.e)), n.e)
OptNumText(o) == IF o = None THEN << >> ELSE NumText(Get(o))

\* process_pdf lines 262-281: the fields dict, given what the extractors
\* returned
MainFieldsOf(vendor, invoice_no, issue_date, currency, amounts, txt) ==
    [vendor |-> vendor, invoice_no |-> invoice_no, issue_date |-> issue_date,
     currency |-> currency, subtotal |-> amounts.subtotal, tax |-> amounts.tax,
     total |-> amounts.total, notes |-> "", raw_text |-> Main_raw_text(txt),
     confidence |->
         Main_calculate_confidence([vendor |-> vendor, invoice_no |-> invoice_no,
                                    issue_date |-> issue_date,
                                    subtotal |-> amounts.subtotal,
                                    tax |-> amounts.tax, total |-> amounts.total]),
     needs_review |->
         Main_needs_review(
             Main_calculate_confidence([vendor |-> vendor, invoice_no |-> invoice_no,
                                        issue_date |-> issue_date,
                                        subtotal |-> amounts.subtotal,
                                        tax |-> amounts.tax, total |-> amounts.total]))]

\* process_pdf lines 253-281 on the text of a readable PDF
Main_fields(txt) ==
    MainFieldsOf(Main_extract_vendor(txt), extract_invoice_no(txt),
                 Main_extract_issue_date(txt), detect_currency(txt),
                 extract_amounts(txt), txt)

\* an entry of results for a file that was not processed
FailedEntry(file, notes) ==
    [file |-> file, ok |-> FALSE, fields |-> [notes |-> notes], sheet_row |-> None]

\* process_pdf: the fields of a readable PDF, a failed entry for the others
Main_process_pdf(filename, content) ==
    IF extract_text_from_pdf(content) = None
    THEN FailedEntry(filename,
                     "Processing failed: Invalid PDF file format or password-protected")
    ELSE [file |-> filename, ok |-> TRUE,
          fields |-> Main_fields(Get(extract_text_from_pdf(content))),
          sheet_row |-> None]

\* lines 613-649: the entry of one file before the sheet is tried
Main_file_outcome(file) ==
    LET name == IF file.filename # << >> THEN file.filename ELSE Name_unknown
    IN  IF file.content_type \notin ALLOWED_MIME_TYPES
        THEN FailedEntry(name, "Invalid file type. Only PDF files are allowed.")
        ELSE IF \/ file.filename = << >>
                \/ ~ \E ext \in ALLOWED_EXTENSIONS : EndsWith(LowerText(file.filename), ext)
        THEN FailedEntry(name, "Invalid file extension. Only .pdf files are allowed.")
        ELSE IF file.content.size > MAX_FILE_SIZE
        THEN FailedEntry(name, "File size exceeds 10MB limit.")
        ELSE Main_process_pdf(file.filename, file.content)
MainOutcome == [f \in Catalog |-> Main_file_outcome(f)]

\* append_to_sheet lines 313-327: the worksheet row of an entry, each cell
\* as the text the worksheet shows for it
Main_SheetRow(data) ==
    << <<"n", "o", "w">>, data.file, OptText(data.fields.vendor),
       OptText(data.fields.invoice_no), OptText(data.fields.issue_date),
       data.fields.currency, OptNumText(data.fields.subtotal),
       OptNumText(data.fields.tax), OptNumText(data.fields.total),
       FloatStr(data.fields.confidence),
       IF data.fields.needs_review THEN <<"T", "R", "U", "E">>
       ELSE <<"F", "A", "L", "S", "E">>,
       << >>, data.fields.raw_text >>

\* append_to_sheet: without a worksheet, or when the append raises, None;
\* else the number of rows of the worksheet after the append
Main_append_to_sheet(data, cfg, rem, sh) ==
    IF ~Configured(cfg) THEN [returned |-> None, sheet |-> sh]
    ELSE IF rem # "ok" THEN [returned |-> None, sheet |-> sh]
    ELSE [returned |-> Some(Len(sh) + 1), sheet |-> Append(sh, Main_SheetRow(data))]

\* lines 607-610: the request is read; FastAPI answers a request without
\* files itself, an empty list is answered with status 400
MainStartUpload(t, batch, N) ==
    /\ req[t].kind = "idle"
    /\ served < N
    /\ served' = served + 1
    /\ req' = [req EXCEPT ![t] =
          IF batch = << >>
          THEN [Idle EXCEPT !.kind = "main.upload", !.pc = "done", !.batch = batch,
                            !.resp = Some([status |-> 400,
                                           detail |-> "No files uploaded"])]
          ELSE [Idle EXCEPT !.kind = "main.upload", !.pc = "file", !.batch = batch,
                            !.files = batch, !.idx = 1]]
    /\ UNCHANGED <<pureVars, _STORE, heap, issued, config, remote, sheet>>

\* lines 650-656: the entry of a file joins results; a processed one is
\* first appended to the sheet and gets the row number
MainEntryJoins(t, o) ==
    IF o.ok
    THEN /\ sheet' = [sheet EXCEPT !.sheet1 =
                          Main_append_to_sheet(o, config, remote, sheet.sheet1).sheet]
         /\ req' = [req EXCEPT
                ![t].results =
                    Append(@, [o EXCEPT !.sheet_row =
                                   Main_append_to_sheet(o, config, remote,
                                                        sheet.sheet1).returned]),
                ![t].idx = @ + 1]
    ELSE /\ sheet' = sheet
         /\ req' = [req EXCEPT ![t].results = Append(@, o), ![t].idx = @ + 1]

\* lines 612-660: one turn of the loop: the file is checked and processed,
\* and its entry joins results
MainUploadFile(t) ==
    /\ req[t].kind = "main.upload" /\ req[t].pc = "file"
    /\ req[t].idx <= Len(req[t].files)
    /\ MainOutcome[req[t].files[req[t].idx]].ok => Returns(config, remote)
    /\ MainEntryJoins(t, MainOutcome[req[t].files[req[t].idx]])
    /\ UNCHANGED <<pureVars, _STORE, heap, issued, config, remote, served>>

\* line 662: the response
MainUploadRespond(t) ==
    LET r == req[t]
    IN  /\ r.kind = "main.upload" /\ r.pc = "file" /\ r.idx > Len(r.files)
        /\ req' = [req EXCEPT ![t].pc = "done",
                              ![t].resp = Some([status |-> 200, results |-> r.results])]
        /\ UNCHANGED <<pureVars, _STORE, heap, issued, config, remote, sheet, served>>


-----------------------------------------------------------------------------
(* The server: threads serving requests to the routes of src/app.py and to *)
(* /api/upload of src/main.py, both configured for the same spreadsheet.   *)

Init ==
    /\ fields = NoFields /\ text = << >> /\ ret = NoRet
    /\ ServerIdle
    /\ config \in {NoConfig, SheetConfig}
    /\ processor = InvoiceProcessor(config)
    /\ launcher = NoLauncher
    /\ remote \in {"ok", "unreachable", "rejecting"}
    /\ ~Configured(config) => remote = "ok"

\* the steps of the threads T serving N requests, whose uploads carry the
\* batches B
ServerNext(T, B, N) ==
    \/ \E t \in T, batch \in B, c \in 0..MaxSessions : StartUpload(t, batch, c, N)
    \/ \E t \in T : UploadFile(t)
    \/ \E t \in T : UploadAppend(t)
    \/ \E t \in T : UploadSheet(t)
    \/ \E t \in T : UploadRespond(t)
    \/ \E t \in T, c \in 0..MaxSessions : Clear(t, c, N)
    \/ \E t \in T, c \in 0..MaxSessions : ExportCsvStart(t, c, N)
    \/ \E t \in T : ExportCsvWrite(t)
    \/ \E t \in T, c \in 0..MaxSessions : ExportJsonStart(t, c, N)
    \/ \E t \in T : ExportJsonWrite(t)
    \/ \E t \in T : HealthCheck(t, N)
    \/ \E t \in T, batch \in B : MainStartUpload(t, batch, N)
    \/ \E t \in T : MainUploadFile(t)
    \/ \E t \in T : MainUploadRespond(t)
    \/ \E t \in T : Respond(t)

\* one request at a time
Next == ServerNext({1}, Batches, MaxRequests)
Spec == Init /\ [][Next]_vars

\* The server with a remote end that may also hang.  The web server runs
\* every handler it started until the handler returns: the steps of a
\* handler are taken whenever they can be; nothing obliges a client to send
\* a request.
InitHang ==
    /\ fields = NoFields /\ text = << >> /\ ret = NoRet
    /\ ServerIdle
    /\ config \in {NoConfig, SheetConfig}
    /\ processor = InvoiceProcessor(config)
    /\ launcher = NoLauncher
    /\ remote \in {"ok", "unreachable", "rejecting", "hanging"}
    /\ ~Configured(config) => remote = "ok"
HandlerStep(t) ==
    \/ UploadFile(t) \/ UploadAppend(t) \/ UploadSheet(t) \/ UploadRespond(t)
    \/ ExportCsvWrite(t) \/ ExportJsonWrite(t)
    \/ MainUploadFile(t) \/ MainUploadRespond(t)
    \/ Respond(t)
NextHang == ServerNext({1}, SmallBatches, MaxRequests)
SpecHang == InitHang /\ [][NextHang]_vars /\ WF_vars(HandlerStep(1))

\* two requests at a time
NextConcurrent == ServerNext(Threads, SmallBatches, MaxConcurrent)
SpecConcurrent == Init /\ [][NextConcurrent]_vars

-----------------------------------------------------------------------------
(* src/launch.py, the launcher: a window with a label, a progress bar and  *)
(* the buttons "open in browser", "retry" and "quit", and the server it    *)
(* starts.  Tk runs one callback at a time: boot and retry run to their    *)
(* end before a click is looked at.  Times are in tenths of a second.      *)

\* line 82: health_ok(30)
HEALTH_TIMEOUT == 300
\* line 45: requests.get(url, timeout=1)
REQUEST_TIMEOUT == 10
\* line 50: time.sleep(0.3)
POLL_SLEEP == 3
\* the boot attempts the launcher is followed through
MaxBoots == 4

\* lines 55-77, Launcher.__init__: both buttons disabled, the bar running,
\* boot scheduled with after(100, self.boot); no server yet (lines 24-25)
Launcher ==
    [pc |-> "mainloop", lbl |-> "preparing", pb |-> "running",
     btn_open |-> "disabled", btn_retry |-> "disabled",
     scheduled |-> TRUE, server |-> "none", elapsed |-> 0,
     log |-> "", browser |-> FALSE, boots |-> 0]

\* lines 83-86: the health check succeeded; the retry button enabled as well
BootSucceeded_RetryToo(l) ==
    [l EXCEPT !.pc = "mainloop", !.pb = "stopped", !.lbl = "started",
              !.btn_open = "normal", !.btn_retry = "normal", !.browser = TRUE]
\* lines 83-86: the health check succeeded (webbrowser.open returns)
BootSucceeded(l) ==
    [l EXCEPT !.pc = "mainloop", !.pb = "stopped", !.lbl = "started",
              !.btn_open = "normal", !.browser = TRUE]
\* lines 87-98: the health check failed (lbl "failed", msg "Health check
\* failed") or start_server raised (lbl "error", msg "Exception"); the log
\* file, whose directory line 14 made, is written and open_log returns
BootFailed(l, lbl, msg) ==
    [l EXCEPT !.pc = "mainloop", !.pb = "stopped", !.lbl = lbl, !.log = msg,
              !.btn_retry = "normal"]

\* lines 79-81, boot up to the health check: the scheduled callback runs;
\* start_server (lines 27-31) binds the port and starts the thread, or
\* create_server raises (the port is taken)
BootStart ==
    /\ launcher.pc = "mainloop" /\ launcher.scheduled
    /\ \E raised \in BOOLEAN :
          launcher' =
              IF raised
              THEN BootFailed([launcher EXCEPT !.scheduled = FALSE, !.boots = @ + 1],
                              "error", "Exception")
              ELSE [launcher EXCEPT !.scheduled = FALSE, !.boots = @ + 1,
                                    !.pc = "health_ok", !.server = "running",
                                    !.elapsed = 0]
    /\ UNCHANGED <<fields, text, ret, _STORE, heap, issued, config, remote, sheet,
                   req, served, processor>>

\* lines 43-50, one turn of the loop of health_ok: the request is answered
\* ok, or it fails at once or at its timeout and the loop sleeps
HealthPoll ==
    /\ launcher.pc = "health_ok"
    /\ launcher.elapsed < HEALTH_TIMEOUT
    /\ \/ launcher' = BootSucceeded(launcher)
       \/ \E took \in {0, REQUEST_TIMEOUT} :
             launcher' = [launcher EXCEPT !.elapsed = @ + took + POLL_SLEEP]
    /\ UNCHANGED <<fields, text, ret, _STORE, heap, issued, config, remote, sheet,
                   req, served, processor>>

\* lines 43 and 51: the time is over, health_ok returns False
HealthTimedOut ==
    /\ launcher.pc = "health_ok"
    /\ launcher.elapsed >= HEALTH_TIMEOUT
    /\ launcher' = BootFailed(launcher, "failed", "Health check failed")
    /\ UNCHANGED <<fields, text, ret, _STORE, heap, issued, config, remote, sheet,
                   req, served, processor>>

\* lines 100-106, retry, the command of the retry button: the server is
\* closed (lines 33-38) and boot is scheduled again
Retry ==
    /\ launcher.pc = "mainloop" /\ launcher.btn_retry = "normal"
    /\ launcher.boots < MaxBoots
    /\ launcher' = [launcher EXCEPT !.btn_retry = "disabled", !.lbl = "restarting",
                                    !.server = IF @ = "none" THEN "none" ELSE "closed",
                                    !.pb = "running", !.scheduled = TRUE]
    /\ UNCHANGED <<fields, text, ret, _STORE, heap, issued, config, remote, sheet,
                   req, served, processor>>

\* lines 108-109, open_ui, the command of the open button
OpenUi ==
    /\ launcher.pc = "mainloop" /\ launcher.btn_open = "normal"
    /\ launcher' = [launcher EXCEPT !.browser = TRUE]
    /\ UNCHANGED <<fields, text, ret, _STORE, heap, issued, config, remote, sheet,
                   req, served, processor>>

\* lines 125-128, quit_all, the command of the quit button
QuitAll ==
    /\ launcher.pc = "mainloop"
    /\ launcher' = [launcher EXCEPT !.pc = "exited", !.scheduled = FALSE,
                                    !.server = IF @ = "none" THEN "none" ELSE "closed"]
    /\ UNCHANGED <<fields, text, ret, _STORE, heap, issued, config, remote, sheet,
                   req, served, processor>>

InitLaunch ==
    /\ fields = NoFields /\ text = << >> /\ ret = NoRet
    /\ ServerIdle
    /\ config = NoConfig
    /\ remote = "ok"
    /\ processor = InvoiceProcessor(config)
    /\ launcher = Launcher
\* a boot attempt, from the scheduled callback to its end
BootStep == BootStart \/ HealthPoll \/ HealthTimedOut
NextLaunch ==
    \/ BootStart
    \/ HealthPoll
    \/ HealthTimedOut
    \/ Retry
    \/ OpenUi
    \/ QuitAll
SpecLaunch == InitLaunch /\ [][NextLaunch]_vars
\* Tk runs a callback that is due and a callback that runs goes on to its
\* end; nothing obliges the user to click
SpecLaunchFair == SpecLaunch /\ WF_vars(BootStep)

-----------------------------------------------------------------------------
(* src/app.py, POST /settings.  The environment variables that override    *)
(* data/config.json are unset here, so the fields service_account_json and *)
(* sheet_id of config are what the file holds.                             *)

\* the bodies a client posts: no JSON object at all, or an object whose
\* service_account_json is missing, "not json" (a text that json.loads
\* refuses), "garbled" (JSON that is no service-account key) or
\* "credentials", with or without a sheet id
NotAnObject == [object |-> FALSE, service_account_json |-> None, sheet_id |-> None]
SettingsData ==
    {NotAnObject} \cup
    [object : {TRUE},
     service_account_json : {None, Some("not json"), Some("garbled"), Some("credentials")},
     sheet_id : {None, Some("sheet-1")}]

\* lines 610-635, the connection test with the posted credentials: the
\* worksheet is fetched (a missing one created and given its header), a test
\* row is appended, and the row is looked for and deleted again
ConnectionTest(data, rem, sh) ==
    IF data.service_account_json = Some("garbled") \/ rem = "unreachable"
    THEN [ok |-> FALSE, sheet |-> sh]
    ELSE IF rem = "rejecting"
    THEN [ok |-> FALSE, sheet |-> IF sh = None THEN Some(<< >>) ELSE sh]
    ELSE [ok |-> TRUE, sheet |-> IF sh = None THEN Some(<<SHEET_HEADERS>>) ELSE sh]

\* lines 605-607: json.dump(data, f) into data/config.json
WriteConfig(cfg, data) ==
    [cfg EXCEPT !.service_account_json = data.service_account_json,
                !.sheet_id = data.sheet_id]

\* lines 589-645, save_settings: the status and the error it answers with,
\* data/config.json and the worksheet after it
save_settings(data, cfg, rem, sh) ==
    IF ~data.object
    THEN [status |-> 500, error |-> "Failed to save settings", config |-> cfg, sheet |-> sh]
    ELSE IF data.service_account_json = None \/ data.sheet_id = None
    THEN [status |-> 400, error |-> "Service Account JSON and Sheet ID are required",
          config |-> cfg, sheet |-> sh]
    ELSE IF data.service_account_json = Some("not json")
    THEN [status |-> 400, error |-> "Invalid JSON format in Service Account",
          config |-> cfg, sheet |-> sh]
    ELSE LET test == ConnectionTest(data, rem, sh)
         IN  IF test.ok
             THEN [status |-> 200, error |-> "", config |-> WriteConfig(cfg, data),
                   sheet |-> test.sheet]
             ELSE [status |-> 400, error |-> "Connection test failed",
                   config |-> WriteConfig(cfg, data), sheet |-> test.sheet]

\* POST /settings served on thread t
SaveSettings(t, data, N) ==
    LET s == save_settings(data, config, remote, sheet.invoices)
    IN  /\ req[t].kind = "idle"
        /\ served < N
        /\ served' = served + 1
        /\ config' = s.config
        /\ sheet' = [sheet EXCEPT !.invoices = s.sheet]
        /\ req' = [req EXCEPT ![t] =
                      [Idle EXCEPT !.kind = "settings", !.pc = "done",
                                   !.resp = Some(IF s.status = 200
                                                 THEN [status |-> 200, ok |-> TRUE]
                                                 ELSE [status |-> s.status,
                                                       error |-> s.error])]]
        /\ UNCHANGED <<pureVars, _STORE, heap, issued, remote>>

\* the settings requests of a client followed by its uploads, one request at
\* a time
MaxSettingsRequests == 3
InitSettings ==
    /\ fields = NoFields /\ text = << >> /\ ret = NoRet
    /\ ServerIdle
    /\ config \in {NoConfig, FileConfig}
    /\ processor = InvoiceProcessor(config)
    /\ launcher = NoLauncher
    /\ remote \in {"ok", "unreachable", "rejecting"}
NextSettings ==
    \/ \E data \in SettingsData : SaveSettings(1, data, MaxSettingsRequests)
    \/ \E batch \in SmallBatches, c \in 0..MaxSessions :
          StartUpload(1, batch, c, MaxSettingsRequests)
    \/ UploadFile(1)
    \/ UploadAppend(1)
    \/ UploadSheet(1)
    \/ UploadRespond(1)
    \/ Respond(1)
SpecSettings == InitSettings /\ [][NextSettings]_vars

-----------------------------------------------------------------------------
(* src/app.py, the spreadsheet sink on its own: the InvoiceProcessor that  *)
(* the module constructs when it is imported, its append_to_sheet, which   *)
(* /selfcheck calls, and save_row_to_sheet, under every configuration and  *)
(* every state of the remote end.                                          *)

\* lines 402-410: the entry that /selfcheck appends
test_data ==
    [file |-> <<"s", "e", "l", "f", "c", "h", "e", "c", "k", "_", "t", "e",
                "s", "t", ".", "p", "d", "f">>,
     vendor |-> Some(<<"T", "e", "s", "t", " ", "V", "e", "n", "d", "o", "r">>),
     date |-> Some(<<"t", "o", "d", "a", "y">>),
     amount |-> Some(FloatNum(1000, 0)),
     confidence |-> 100,
     needs_review |-> "FALSE",
     raw_excerpt |->
        <<"T", "h", "i", "s", " ", "i", "s", " ", "a", " ", "s", "e", "l",
          "f", "-", "c", "h", "e", "c", "k", " ", "t", "e", "s", "t", " ",
          "e", "n", "t", "r", "y", " ", "g", "e", "n", "e", "r", "a", "t",
          "e", "d", " ", "b", "y", " ", "t", "h", "e", " ", "s", "y", "s",
          "t", "e", "m", ".">>]

\* x or "" as the worksheet shows it: nothing for None, an int as its
\* digits, a float (of at most two decimals) with its fraction
NumberText(o) ==
    IF o = None THEN << >>
    ELSE IF Get(o).ty = "int" THEN IntStr(Get(o).m)
    ELSE FloatStr(IF Get(o).e = 0 THEN 100 * Get(o).m
                  ELSE IF Get(o).e = 1 THEN 10 * Get(o).m ELSE Get(o).m)

\* lines 350-359: the values that InvoiceProcessor.append_to_sheet sends
App_values(data) ==
    << <<"n", "o", "w">>, data.file, OptText(data.vendor), OptText(data.date),
       NumberText(data.amount), FloatStr(data.confidence),
       FlagText(data.needs_review), data.raw_excerpt >>

\* lines 341-380: InvoiceProcessor.append_to_sheet(data) appends to the range
\* A:H of the spreadsheet, which is its first worksheet; any error of the
\* remote end is caught
App_append_to_sheet(data, proc, rem, rows) ==
    IF proc.sheets_service = None THEN [returned |-> FALSE, sheet |-> rows]
    ELSE IF rem # "ok" THEN [returned |-> FALSE, sheet |-> rows]
    ELSE [returned |-> TRUE, sheet |-> Append(rows, App_values(data))]

\* the configurations of the sink
GarbledFileConfig == [service_account_json |-> Some("garbled"),
                      sheet_id |-> Some("sheet-1"),
                      GOOGLE_SERVICE_ACCOUNT_JSON |-> None, SHEET_ID |-> None]
SinkConfigs ==
    { NoConfig, SheetConfig, GarbledConfig, NoSheetConfig, FileConfig,
      GarbledFileConfig }
Remotes == {"ok", "unreachable", "rejecting"}

\* the payloads that upload_files hands to save_row_to_sheet
SinkPayloads == { FileOutcome[f].row : f \in {g \in Catalog : FileOutcome[g].ok} }

\* how many appends the sink is asked for
MaxSinkCalls == 3

InitSink ==
    /\ fields = NoFields
    /\ text = << >>
    /\ ret = NoRet
    /\ ServerIdle
    /\ processor = NotConstructed
    /\ launcher = NoLauncher
    /\ config \in SinkConfigs
    /\ remote \in Remotes

\* line 383: processor = InvoiceProcessor(), when the module is imported.  An
\* exception ends the import: nothing of the module runs after it.
ConstructProcessor ==
    /\ ~processor.constructed
    /\ ret = NoRet
    /\ LET r == _initialize_sheets_service(config)
       IN  IF r.raised
           THEN /\ ret' = Raised("_initialize_sheets_service", "Exception")
                /\ UNCHANGED processor
           ELSE /\ ret' = [fn |-> "InvoiceProcessor", val |-> r.sheets_service]
                /\ processor' = InvoiceProcessor(config)
    /\ UNCHANGED <<fields, text, _STORE, heap, issued, config, remote, sheet,
                   req, served, launcher>>

\* lines 395-424: /selfcheck with the password
SelfCheck ==
    /\ processor.constructed
    /\ served < MaxSinkCalls
    /\ LET r == App_append_to_sheet(test_data, processor, remote, sheet.sheet1)
       IN  /\ ret' = [fn |-> "append_to_sheet", val |-> r.returned]
           /\ sheet' = [sheet EXCEPT !.sheet1 = r.sheet]
    /\ served' = served + 1
    /\ UNCHANGED <<fields, text, _STORE, heap, issued, config, remote, req,
                   processor, launcher>>

\* lines 117-144: save_row_to_sheet(payload)
SaveRow(payload) ==
    /\ processor.constructed
    /\ served < MaxSinkCalls
    /\ LET r == save_row_to_sheet(payload, config, remote, sheet.invoices)
       IN  /\ ret' = [fn |-> "save_row_to_sheet", val |-> r.returned]
           /\ sheet' = [sheet EXCEPT !.invoices = r.sheet]
    /\ served' = served + 1
    /\ UNCHANGED <<fields, text, _STORE, heap, issued, config, remote, req,
                   processor, launcher>>

NextSink ==
    \/ ConstructProcessor
    \/ SelfCheck
    \/ \E payload \in SinkPayloads : SaveRow(payload)
SpecSink == InitSink /\ [][NextSink]_vars

-----------------------------------------------------------------------------
(* Properties of the scorers.                                              *)
PresentAmong(keys) == Cardinality({k \in keys : fields[k] # None})

\* C1: in every record of extract_fields_jp (threshold 0.8) and of process_pdf
\* in both variants (threshold 0.67), needs_review is set iff the reported
\* confidence is strictly below the threshold of that path; a confidence equal
\* to the threshold is not flagged.
C1_NeedsReviewIffBelowThreshold ==
    /\ ret.fn = "extract_fields_jp" =>
          /\ ret.val.needs_review \in {"TRUE", "FALSE"}
          /\ (ret.val.needs_review = "TRUE") <=> (ret.val.confidence < 80)
    /\ ret.fn = "app.process_pdf" =>
          /\ ret.val.needs_review \in {"TRUE", "FALSE"}
          /\ (ret.val.needs_review = "TRUE") <=> (ret.val.confidence < 67)
    /\ ret.fn = "main.process_pdf" =>
          /\ ret.val.needs_review \in BOOLEAN
          /\ ret.val.needs_review <=> (ret.val.confidence < 67)

\* a record of app.py's process_pdf scored exactly 0.67 and not flagged
C1_Witness ==
    /\ ret.fn = "app.process_pdf"
    /\ ret.val.confidence = 67
    /\ ret.val.needs_review = "FALSE"

\* C2: under the equal-weight policy the confidence is (number of present
\* fields among amount, date, vendor) / 3 rounded to 2 decimals: 0.0, 0.33,
\* 0.67 or 1.0, whatever the values of the present fields are.
C2_EqualWeightConfidence ==
    ret.fn \in {"extract_fields_jp", "app.process_pdf"} =>
        LET n == PresentAmong({"amount", "date", "vendor"})
        IN  ret.val.confidence =
                CASE n = 0 -> 0 [] n = 1 -> 33 [] n = 2 -> 67 [] n = 3 -> 100

\* two present fields whose values are a zero amount and an empty vendor
C2_Witness ==
    /\ ret.fn = "app.process_pdf"
    /\ fields.amount = Some(IntNum(0))
    /\ fields.vendor = Some(<< >>)
    /\ fields.date = None
    /\ ret.val.confidence = 67

\* C3: under the weighted policy the confidence is the hundredth nearest to
\* (1 per present field of vendor, issue_date, total + 0.5 per present field
\* of subtotal, tax, invoice_no) / 4.5, lies in [0, 1], and is 1.0 only when
\* all six fields are present.
C3_WeightedConfidence ==
    ret.fn = "main.process_pdf" =>
        LET key == PresentAmong({"vendor", "date", "amount"})
            bonus == PresentAmong({"subtotal", "tax", "invoice_no"})
            c == ret.val.confidence
            d == 9 * c - 100 * (2 * key + bonus)
        IN  /\ c \in 0..100
            /\ 2 * d <= 9 /\ -9 <= 2 * d
            /\ c = 100 => key = 3 /\ bonus = 3

\* the three key fields and two of the three bonus fields: 4 / 4.5 = 0.89
C3_Witness ==
    /\ ret.fn = "main.process_pdf"
    /\ PresentAmong({"vendor", "date", "amount"}) = 3
    /\ PresentAmong({"subtotal", "tax", "invoice_no"}) = 2
    /\ ret.val.confidence = 89

-----------------------------------------------------------------------------
(* Properties of the extractors.                                           *)

\* four digits, "-", two digits, "-", two digits
IsIsoDate(d) ==
    /\ Len(d) = 10
    /\ d[5] = "-" /\ d[8] = "-"
    /\ \A j \in {1, 2, 3, 4, 6, 7, 9, 10} : d[j] \in Digit

\* C4: every date a date extractor returns (extract_fields_jp, and
\* extract_issue_date of both variants) has the form dddd-dd-dd with month
\* and day zero-padded.
C4_DatesAreZeroPadded ==
    /\ ret.fn = "extract_fields_jp" =>
          ret.val.date = None \/ IsIsoDate(Get(ret.val.date))
    /\ ret.fn \in {"app.extract_issue_date", "main.extract_issue_date"} =>
          ret.val = None \/ IsIsoDate(Get(ret.val))

\* s occurs in t
Contains(t, s) ==
    \E j \in 0..(Len(t) - Len(s)) : SubSeq(t, j + 1, j + Len(s)) = s

\* the text holds the amount line, the date line and, within its first 10
\* lines, the company line of the example; its other lines are fillers
IsExampleText(t) ==
    LET ls == Split(t, "\n")
    IN  /\ \E j \in 1..Len(ls) : ls[j] = Line_Total
        /\ \E j \in 1..Len(ls) : ls[j] = Line_Issued
        /\ \E j \in 1..Len(ls) : j <= 10 /\ ls[j] = Line_Company
        /\ \A j \in 1..Len(ls) :
              ls[j] \in {Line_Total, Line_Issued, Line_Company} \cup FillerLines

\* C5: for a text with the amount line "GOUKEI YEN 12,345", the date line
\* "HAKKOUBI 2024/03/01" and the company line within its first 10 lines (its
\* other lines carrying no label or marker), extract_fields_jp returns amount
\* 12345, date 2024-03-01, a vendor containing the name, confidence 1.0 and
\* needs_review FALSE.
C5_ExampleExtraction ==
    ret.fn = "extract_fields_jp" /\ IsExampleText(text) =>
        /\ ret.val.amount = Some(IntNum(12345))
        /\ ret.val.date = Some(Str_2024_03_01)
        /\ ret.val.vendor # None
        /\ Contains(Get(ret.val.vendor), <<"TE", "SU", "TO">>)
        /\ ret.val.confidence = 100
        /\ ret.val.needs_review = "FALSE"

\* the example with the company line as the tenth line of the text
C5_Witness ==
    /\ ret.fn = "extract_fields_jp"
    /\ IsExampleText(text)
    /\ Len(Split(text, "\n")) >= 10
    /\ Split(text, "\n")[10] = Line_Company
    /\ ret.val.confidence = 100

RECURSIVE Pow10(_)
Pow10(n) == IF n = 0 THEN 1 ELSE 10 * Pow10(n - 1)
HasComma(g) == \E j \in 1..Len(g) : g[j] = ","
WithoutCommas(g) == SelectSeq(g, LAMBDA c : c # ",")
\* the number x is the decimal numeral s read without its commas
IsDecimalOf(x, g) ==
    LET s == WithoutCommas(g)
        point == {j \in 1..Len(s) : s[j] = "."}
        frac == IF point = {} THEN 0 ELSE Len(s) - (CHOOSE j \in point : TRUE)
        digits == SelectSeq(s, LAMBDA c : c # ".")
    IN  /\ Cardinality(point) <= 1
        /\ digits # << >>
        /\ \A j \in 1..Len(digits) : digits[j] \in Digit
        /\ x.m * Pow10(frac) = DigitsValue(digits) * Pow10(x.e)
\* an amount that is absent, or that came from a group without a comma, or
\* that is the group's numeral without its commas
AmountReadsGroup(amount, g) ==
    amount # None /\ HasComma(g) => IsDecimalOf(Get(amount), g)

\* C10: an amount returned from a matched string with comma grouping is the
\* matched string without its commas, read as a decimal number
\* (extract_fields_jp, extract_amount of app.py, extract_amounts of main.py).
C10_AmountIsGroupWithoutCommas ==
    /\ ret.fn = "extract_fields_jp" =>
          LET g == JpAmountGroup(_normalize(text))
          IN  AmountReadsGroup(ret.val.amount, IF g = None THEN << >> ELSE Get(g))
    /\ ret.fn = "app.extract_amount" =>
          AmountReadsGroup(ret.val, App_extract_amount_from(text, 1).matched)
    /\ ret.fn = "main.extract_amounts" =>
          /\ AmountReadsGroup(ret.val.subtotal,
                              Main_amount_from(subtotal_patterns, text, 1).matched)
          /\ AmountReadsGroup(ret.val.tax,
                              Main_amount_from(tax_patterns, text, 1).matched)
          /\ AmountReadsGroup(ret.val.total,
                              Main_amount_from(total_patterns, text, 1).matched)

\* extract_fields_jp read 1,234,567 out of a group with two commas
C10_Witness ==
    /\ ret.fn = "extract_fields_jp"
    /\ JpAmountGroup(_normalize(text)) = Some(<<"1", ",", "2", "3", "4", ",", "5", "6", "7">>)
    /\ ret.val.amount = Some(IntNum(1234567))

-----------------------------------------------------------------------------
(* Properties of the upload server.                                        *)

PdfName(name) == EndsWith(LowerText(name), <<".", "p", "d", "f">>)

\* the code src/app.py is to report for a file, "" for a valid one: the type
\* is checked first, then the size, then the PDF is parsed
CodeFor(f) ==
    IF f.filename = << >> \/ ~PdfName(f.filename)
       \/ f.content_type # "application/pdf"
    THEN "INVALID_TYPE"
    ELSE IF f.content.size > MAX_SIZE THEN "TOO_LARGE"
    ELSE IF ~f.content.readable THEN "PROCESSING_ERROR"
    ELSE IF extract_fields_jp_raises(PagesText(f.content.pages)) THEN "PROCESSING_ERROR"
    ELSE ""
Codes == [f \in Catalog |-> CodeFor(f)]
Rejected(files) == SelectSeq(files, LAMBDA f : Codes[f] # "")
Accepted(files) == SelectSeq(files, LAMBDA f : Codes[f] = "")
RowsOf(files) == [j \in 1..Len(Accepted(files)) |-> FileOutcome[Accepted(files)[j]].row]
EntriesOf(files) ==
    [j \in 1..Len(Rejected(files)) |-> FileOutcome[Rejected(files)[j]].entry]

\* a file src/main.py is to reject or cannot parse
MainFails(f) ==
    \/ f.filename = << >> \/ ~PdfName(f.filename)
    \/ f.content_type # "application/pdf"
    \/ f.content.size > MAX_FILE_SIZE
    \/ ~f.content.readable

\* an upload of src/app.py that went through its loop and built its response
UploadDone(r) == r.kind = "upload" /\ r.pc = "done" /\ r.files # << >>
MainUploadDone(r) == r.kind = "main.upload" /\ r.pc = "done" /\ r.batch # << >>

\* src/app.py: past the entries of the files over MAX_FILES, errors holds one
\* entry per failing file, in order and with its code; results holds the row
\* of every other file, in order, and is answered whenever it is not empty
AppBatchHandled(r) ==
    LET perFile == SubSeq(r.errors, Len(TooMany(r.batch)) + 1, Len(r.errors))
    IN  /\ Len(perFile) = Len(Rejected(r.files))
        /\ \A j \in 1..Len(perFile) :
              /\ perFile[j].code = Codes[Rejected(r.files)[j]]
              /\ perFile[j].code \in {"INVALID_TYPE", "TOO_LARGE", "PROCESSING_ERROR"}
              /\ perFile[j].file = FileOutcome[Rejected(r.files)[j]].entry.file
        /\ r.results = RowsOf(r.files)
        /\ r.results # << >> =>
              /\ Get(r.resp).status = 200
              /\ Get(r.resp).results = r.results
              /\ r.errors # << >> => Get(r.resp).errors = r.errors

\* src/main.py: one entry per file, in order; that of a failing file is an
\* error entry with its code, that of any other file is a processed one
MainBatchHandled(r) ==
    /\ Get(r.resp).status = 200
    /\ Len(Get(r.resp).results) = Len(r.batch)
    /\ \A j \in 1..Len(r.batch) :
          LET e == Get(r.resp).results[j]
          IN  IF MainFails(r.batch[j])
              THEN /\ ~e.ok
                   /\ "code" \in DOMAIN e
                   /\ e.code \in {"INVALID_TYPE", "TOO_LARGE", "PROCESSING_ERROR"}
              ELSE e.ok

\* what holds of src/main.py: one entry per file, in order, ok exactly for
\* the files that pass the checks and parse, a note in the others
MainBatchEntries ==
    \A t \in Threads :
        MainUploadDone(req[t]) =>
            /\ Get(req[t].resp).status = 200
            /\ Len(Get(req[t].resp).results) = Len(req[t].batch)
            /\ \A j \in 1..Len(req[t].batch) :
                  LET e == Get(req[t].resp).results[j]
                  IN  /\ e.ok = ~MainFails(req[t].batch[j])
                      /\ ~e.ok => e.fields.notes # ""
\* what holds of src/app.py
AppBatchEntries == \A t \in Threads : UploadDone(req[t]) => AppBatchHandled(req[t])

\* C6: in one /api/upload batch, a file that fails the type or size
\* validation, or whose PDF cannot be parsed, produces one per-file error
\* entry with the code INVALID_TYPE, TOO_LARGE or PROCESSING_ERROR and does
\* not stop the loop: every other file of the batch, before or after it, is
\* processed and appears in results (upload_files of src/app.py and of
\* src/main.py).
C6_FailingFileGetsCodedEntry ==
    \A t \in Threads :
        /\ UploadDone(req[t]) => AppBatchHandled(req[t])
        /\ MainUploadDone(req[t]) => MainBatchHandled(req[t])

\* the list stored for session s, None when there is none
Bucket(s) == IF s \in DOMAIN _STORE THEN Some(heap[_STORE[s]].items) ELSE None
IsSuffix(a, b) == Len(a) <= Len(b) /\ SubSeq(b, Len(b) - Len(a) + 1, Len(b)) = a

\* C7: a failure of the remote spreadsheet append (not configured,
\* unreachable, or raising) never changes the outcome of the upload: whatever
\* the configuration and the remote end are, the response holds the rows of
\* the valid files, the session's list ends with them, and the errors are
\* those of the failing files and no other.
C7_SheetFailureLeavesOutcome ==
    \A t \in Threads :
        UploadDone(req[t]) =>
            /\ req[t].results = RowsOf(req[t].files)
            /\ req[t].errors = TooMany(req[t].batch) \o EntriesOf(req[t].files)
            /\ req[t].resp = Some(UploadResponse(RowsOf(req[t].files), req[t].errors))
            /\ req[t].results # << >> =>
                  /\ req[t].sid # 0
                  /\ Bucket(req[t].sid) # None
                  /\ IsSuffix(req[t].results, Get(Bucket(req[t].sid)))

\* an upload of three files is done: the first save could not reach the
\* worksheet, all the rows are in the response and in the list, and the only
\* error is that of the file that could not be parsed
C7_Witness ==
    /\ Configured(config) /\ remote = "unreachable"
    /\ UploadDone(req[1])
    /\ req[1].batch = <<File_Odd, File_Broken, File_Invoice>>
    /\ req[1].log = <<"Failed to get worksheet", "Error processing file",
                      "Failed to get worksheet">>
    /\ Len(Get(req[1].resp).results) = 2
    /\ Len(Get(req[1].resp).errors) = 1
    /\ Bucket(req[1].sid) = Some(Get(req[1].resp).results)
    /\ sheet = NoRows

\* the thread that takes the step
Acts(t) == req'[t] # req[t]

\* C8: for any interleaving of upload, clear and export requests of two
\* sessions: a step changes the stored list of a session only in a request
\* that carries this session's id, it changes a list object only in a request
\* of the session the list was made for, and an export writes the rows of a
\* list made for the session of its request.
C8_SessionsIsolated ==
    [][ \A t \in Threads :
            Acts(t) =>
                /\ \A s \in 1..MaxSessions :
                      Bucket(s)' # Bucket(s) => req'[t].sid = s
                /\ \A k \in 1..Len(heap) :
                      heap'[k] # heap[k] => heap[k].key = req'[t].sid
                /\ \A k \in (Len(heap) + 1)..Len(heap') :
                      heap'[k].key = req'[t].sid
                /\ req'[t].ref # 0 => heap'[req'[t].ref].key = req'[t].sid
                /\ (req'[t].kind = "export_csv" /\ req[t].pc = "write") =>
                      \E k \in 1..Len(heap) :
                          /\ heap[k].key = req'[t].sid
                          /\ Get(req'[t].resp).body = CsvContent(heap[k].items)
      ]_vars

\* thread 1 has exported the list of its session while thread 2 is in an
\* upload of another session, which has put a row into its own list
C8_Witness ==
    /\ req[1].kind = "export_csv" /\ req[1].pc = "done"
    /\ Get(req[1].resp).status = 200
    /\ req[2].kind = "upload" /\ req[2].pc = "sheet"
    /\ req[2].sid # 0 /\ req[2].sid # req[1].sid
    /\ Bucket(req[1].sid) = Some(<<FileOutcome[File_Odd].row>>)
    /\ Bucket(req[2].sid) = Some(<<FileOutcome[File_Invoice].row>>)
    /\ Get(req[1].resp).body = CsvContent(<<FileOutcome[File_Odd].row>>)

\* csv.reader, excel dialect: the state of the parser after the character c,
\* "EOL" standing for the end of a line
SaveField(p) == [p EXCEPT !.fields = Append(@, p.field), !.field = << >>]
AddChar(p, c) == [p EXCEPT !.field = Append(@, c)]
EndsField(p, c) ==
    [SaveField(p) EXCEPT !.state = IF c = "EOL" THEN "START_RECORD" ELSE "EAT_CRNL"]
StartField(p, c) ==
    IF c \in {"\n", "\r", "EOL"} THEN EndsField(p, c)
    ELSE IF c = "\"" THEN [p EXCEPT !.state = "IN_QUOTED_FIELD"]
    ELSE IF c = "," THEN [SaveField(p) EXCEPT !.state = "START_FIELD"]
    ELSE [AddChar(p, c) EXCEPT !.state = "IN_FIELD"]
ProcessChar(p, c) ==
    CASE p.state = "START_RECORD" ->
            IF c = "EOL" THEN p
            ELSE IF c \in {"\n", "\r"} THEN [p EXCEPT !.state = "EAT_CRNL"]
            ELSE StartField(p, c)
      [] p.state = "START_FIELD" -> StartField(p, c)
      [] p.state = "IN_FIELD" ->
            IF c \in {"\n", "\r", "EOL"} THEN EndsField(p, c)
            ELSE IF c = "," THEN [SaveField(p) EXCEPT !.state = "START_FIELD"]
            ELSE AddChar(p, c)
      [] p.state = "IN_QUOTED_FIELD" ->
            IF c = "EOL" THEN p
            ELSE IF c = "\"" THEN [p EXCEPT !.state = "QUOTE_IN_QUOTED_FIELD"]
            ELSE AddChar(p, c)
      [] p.state = "QUOTE_IN_QUOTED_FIELD" ->
            IF c = "\"" THEN [AddChar(p, c) EXCEPT !.state = "IN_QUOTED_FIELD"]
            ELSE IF c = "," THEN [SaveField(p) EXCEPT !.state = "START_FIELD"]
            ELSE IF c \in {"\n", "\r", "EOL"} THEN EndsField(p, c)
            ELSE [AddChar(p, c) EXCEPT !.state = "IN_FIELD"]
      [] p.state = "EAT_CRNL" ->
            IF c \in {"\n", "\r"} THEN p
            ELSE IF c = "EOL" THEN [p EXCEPT !.state = "START_RECORD"]
            ELSE [p EXCEPT !.state = "ERROR"]
      [] p.state = "ERROR" -> p
\* the end of a line: a parser back at the start of a record yields it
EndLine(p) ==
    IF ProcessChar(p, "EOL").state = "START_RECORD"
    THEN [ProcessChar(p, "EOL") EXCEPT !.records = Append(@, ProcessChar(p, "EOL").fields),
                                       !.fields = << >>]
    ELSE ProcessChar(p, "EOL")
\* the parser after the j-th character of the text s, read in lines that
\* end with "\n"
CsvStep(p, s, j) ==
    IF s[j] = "\n" \/ j = Len(s) THEN EndLine(ProcessChar(p, s[j]))
    ELSE ProcessChar(p, s[j])
\* the parser after the characters a..b of s; it stops at an error
RECURSIVE CsvRun(_, _, _, _)
CsvRun(p, s, a, b) ==
    IF p.state = "ERROR" \/ a > b THEN p
    ELSE IF a = b THEN CsvStep(p, s, a)
    ELSE CsvRun(CsvRun(p, s, a, (a + b) \div 2), s, (a + b) \div 2 + 1, b)
\* the records csv.reader yields at the end of the text: a text that ends in
\* a quoted field yields the record read so far
CsvEnd(p) ==
    IF p.state = "ERROR" THEN <<"Error">>
    ELSE IF p.field # << >> \/ p.state = "IN_QUOTED_FIELD"
    THEN Append(p.records, Append(p.fields, p.field))
    ELSE p.records
CsvParse(s) ==
    CsvEnd(CsvRun([state |-> "START_RECORD", field |-> << >>, fields |-> << >>,
                   records |-> << >>], s, 1, Len(s)))

\* the value of a record in the column named col, as text: nothing for
\* null, str() of a number
ColumnText(row, col) ==
    CASE col = <<"f", "i", "l", "e">> -> row.file
      [] col = <<"d", "a", "t", "e">> -> OptText(row.date)
      [] col = <<"a", "m", "o", "u", "n", "t">> -> AmountText(row.amount)
      [] col = <<"v", "e", "n", "d", "o", "r">> -> OptText(row.vendor)
      [] col = <<"c", "o", "n", "f", "i", "d", "e", "n", "c", "e">> ->
            FloatStr(row.confidence)
      [] col = <<"n", "e", "e", "d", "s", "_", "r", "e", "v", "i", "e", "w">> ->
            FlagText(row.needs_review)
      [] col = <<"r", "a", "w", "_", "e", "x", "c", "e", "r", "p", "t">> ->
            row.raw_excerpt
\* the csv text parses into the header and one row per record, in order,
\* each cell the text of the record's value in the header's column
ReadsBack(parsed, rows) ==
    /\ Len(parsed) = Len(rows) + 1
    /\ parsed[1] = COLS
    /\ \A j \in 1..Len(rows) :
          /\ Len(parsed[j + 1]) = 7
          /\ \A k \in 1..7 : parsed[j + 1][k] = ColumnText(rows[j], parsed[1][k])

-----------------------------------------------------------------------------
(* Properties of the extractors when nothing parses.                       *)

\* a string float() and int() parse: digits, for float() with at most one
\* point among them
IsNumeral(s) ==
    /\ \E j \in 1..Len(s) : s[j] \in Digit
    /\ \A j \in 1..Len(s) : s[j] \in Digit \cup {"."}
    /\ Cardinality({j \in 1..Len(s) : s[j] = "."}) <= 1
\* what the patterns ps that match in t hand to float(): their group n
\* without its commas
Candidates(ps, t, n) ==
    { WithoutCommas(Group(t, Search(ps[k], t), n)) :
        k \in {j \in 1..Len(ps) : Search(ps[j], t).found} }
NoneParses(ps, t, n) == \A c \in Candidates(ps, t, n) : ~IsNumeral(c)

\* What the calls that return give back: null when no pattern matches and
\* when patterns match but none of the matched substrings parses; a match
\* that fails to parse falls through to the next pattern (extract_amount of
\* src/app.py, extract_amounts of src/main.py); a group of AMOUNT_RE that
\* int() converts is a numeral (extract_fields_jp).
NullWhenNothingParses ==
    /\ ret.fn = "app.extract_amount" =>
          /\ NoneParses(App_AMOUNT_PATTERNS, text, 1) => ret.val = None
          /\ ret.val # None => Get(ret.val).ty = "float"
    /\ ret.fn = "main.extract_amounts" =>
          /\ NoneParses(subtotal_patterns, text, 2) => ret.val.subtotal = None
          /\ NoneParses(tax_patterns, text, 2) => ret.val.tax = None
          /\ NoneParses(total_patterns, text, 2) => ret.val.total = None
    /\ ret.fn = "extract_fields_jp" =>
          IF Search(AMOUNT_RE, _normalize(text)).found
          THEN /\ IsNumeral(WithoutCommas(Get(JpAmountGroup(_normalize(text)))))
               /\ ret.val.amount # None
          ELSE ret.val.amount = None

\* C11: for every text in which no amount pattern matches, and for every
\* text in which a pattern matches a substring that cannot be parsed as a
\* number, the amount extractor returns null (after the later patterns had
\* their turn) and never raises to its caller.
C11_NullAndNeverRaises ==
    /\ ret.fn # "raised"
    /\ NullWhenNothingParses

-----------------------------------------------------------------------------
(* The scorers compared on two inputs.                                     *)

\* the fields a scorer counts
Constituents(fn) ==
    IF fn = "main.process_pdf"
    THEN {"amount", "date", "vendor", "subtotal", "tax", "invoice_no"}
    ELSE {"amount", "date", "vendor"}
\* the record the scorer fn makes of the field values fs
ScoredBy(fn, fs) ==
    CASE fn = "extract_fields_jp" -> JpRecord(fs.amount, fs.date, fs.vendor)
      [] fn = "app.process_pdf" -> AppScored(fs.amount, fs.date, fs.vendor)
      [] fn = "main.process_pdf" ->
            MainScored([vendor |-> fs.vendor, invoice_no |-> fs.invoice_no,
                        issue_date |-> fs.date, subtotal |-> fs.subtotal,
                        tax |-> fs.tax, total |-> fs.amount])
Flagged(fn, rec) ==
    IF fn = "main.process_pdf" THEN rec.needs_review ELSE rec.needs_review = "TRUE"

\* C12: under both scoring policies, changing any one constituent field from
\* null to non-null while every other field is held fixed never lowers the
\* confidence and never turns needs_review from false to true: the record
\* scored from the fields is compared with the one scored from the same
\* fields with one present field taken away.
C12_ConfidenceMonotone ==
    ret.fn \in {"extract_fields_jp", "app.process_pdf", "main.process_pdf"} =>
        \A f \in Constituents(ret.fn) :
            fields[f] # None =>
                /\ ScoredBy(ret.fn, [fields EXCEPT ![f] = None]).confidence
                      <= ret.val.confidence
                /\ ~Flagged(ret.fn, ScoredBy(ret.fn, [fields EXCEPT ![f] = None]))
                      => ~Flagged(ret.fn, ret.val)

\* the weighted scorer gave 0.67 and no flag to vendor, date, subtotal and
\* tax; without the tax it gives 0.56 and the flag
C12_Witness ==
    /\ ret.fn = "main.process_pdf"
    /\ fields.amount = None /\ fields.invoice_no = None
    /\ fields.tax # None /\ fields.subtotal # None
    /\ ret.val.confidence = 67 /\ ~Flagged(ret.fn, ret.val)
    /\ ScoredBy(ret.fn, [fields EXCEPT !.tax = None]).confidence = 56
    /\ Flagged(ret.fn, ScoredBy(ret.fn, [fields EXCEPT !.tax = None]))

-----------------------------------------------------------------------------
(* An extractor that raises while a file is processed.                     *)

\* a file that passes the checks of src/app.py, whose PDF is read, and on
\* whose text the amount extractor of extract_fields_jp raises
ExtractorRaises(f) ==
    /\ f.filename # << >> /\ PdfName(f.filename)
    /\ f.content_type = "application/pdf"
    /\ f.content.size <= MAX_SIZE
    /\ f.content.readable
    /\ extract_fields_jp_raises(PagesText(f.content.pages))

\* the record the file is to get: the amount null, the date and the vendor
\* as extracted, the confidence of the fields that are left
DegradedRow(f) ==
    LET txt == PagesText(f.content.pages)
        t == _normalize(txt)
    IN  UploadRowOf(secure_filename(f.filename),
                    JpRecord(None, JpDate(t), JpVendor(t)), txt)

\* C13: when a field extractor raises an unexpected error while a file is
\* being processed, only that field becomes null: the record of the file is
\* still produced, with the other fields and the confidence they give, and
\* the file is not reported as failed (upload_files of src/app.py, where the
\* amount extractor of extract_fields_jp raises on an over-long numeral).
C13_ExtractorErrorNullsOneField ==
    \A t \in Threads :
        UploadDone(req[t]) =>
            \A j \in 1..Len(req[t].files) :
                ExtractorRaises(req[t].files[j]) =>
                    /\ \E k \in 1..Len(req[t].results) :
                          /\ req[t].results[k].file
                                = secure_filename(req[t].files[j].filename)
                          /\ req[t].results[k] = DegradedRow(req[t].files[j])
                    /\ \A k \in 1..Len(req[t].errors) :
                          req[t].errors[k].file
                              # Some(secure_filename(req[t].files[j].filename))

-----------------------------------------------------------------------------
(* The length of the excerpt.                                              *)

\* C14: for every input text of any length, the raw excerpt stored in the
\* record is never longer than the bound of its path, the ellipsis marker
\* counted: 200 characters in process_pdf of src/app.py, 500 characters in
\* the upload path of src/app.py and in process_pdf of src/main.py.
C14_ExcerptWithinBound ==
    /\ ret.fn = "app.raw_excerpt" => Len(ret.val) <= 200
    /\ ret.fn = "upload.raw_excerpt" => Len(ret.val) <= 500
    /\ ret.fn = "main.raw_text" => Len(ret.val) <= 500

\* what holds: an excerpt is a prefix of the text (stripped in src/app.py's
\* process_pdf) of at most the bound, followed by the three characters of
\* the marker when the text is longer than the bound; only the upload path
\* of src/app.py, which appends no marker, stays within the bound
ExcerptWithinBoundAndMarker ==
    /\ ret.fn = "app.raw_excerpt" =>
          Len(ret.val) <= 200 + (IF Len(text) > 200 THEN 3 ELSE 0)
    /\ ret.fn = "upload.raw_excerpt" => Len(ret.val) <= 500
    /\ ret.fn = "main.raw_text" =>
          Len(ret.val) <= 500 + (IF Len(text) > 500 THEN 3 ELSE 0)

-----------------------------------------------------------------------------
(* The record of a file after it was assembled.                            *)

\* the rows upload_files of src/app.py assembles, the entries process_pdf of
\* src/main.py returns for the files it processes
AssembledRows == { FileOutcome[f].row : f \in {g \in Catalog : FileOutcome[g].ok} }
AssembledEntries == { MainOutcome[f] : f \in {g \in Catalog : MainOutcome[g].ok} }

\* the files of an upload of src/app.py whose turn of the loop has reached
\* results
Through(r) == SubSeq(r.files, 1, IF r.pc = "sheet" THEN r.idx ELSE r.idx - 1)

-----------------------------------------------------------------------------
(* The sink: what its operations return and whether they raise.            *)

\* the credentials of cfg can be used and the sheet is named
Usable(cred, id) == cred = Some("credentials") /\ id # None
Absent(cred, id) == cred = None \/ id = None

\* what the two append operations return: failure without credentials or
\* sheet id and when the remote call fails, success with usable credentials
\* and a remote end that answers
SinkReturnValues ==
    /\ ret.fn = "save_row_to_sheet" =>
          /\ ret.val \in BOOLEAN
          /\ (Absent(config.service_account_json, config.sheet_id)
                \/ remote # "ok") => ret.val = FALSE
          /\ (Usable(config.service_account_json, config.sheet_id)
                /\ remote = "ok") => ret.val = TRUE
    /\ ret.fn = "append_to_sheet" =>
          /\ ret.val \in BOOLEAN
          /\ (Absent(config.GOOGLE_SERVICE_ACCOUNT_JSON, config.SHEET_ID)
                \/ remote # "ok") => ret.val = FALSE
          /\ (Usable(config.GOOGLE_SERVICE_ACCOUNT_JSON, config.SHEET_ID)
                /\ remote = "ok") => ret.val = TRUE

\* C16: the append-single-row operations (save_row_to_sheet,
\* InvoiceProcessor.append_to_sheet) never raise: they return a failure value
\* when credentials or sheet id are absent or when the remote call fails, and
\* a success value otherwise; and absent or unusable credentials never raise
\* an error anywhere in the sink layer, including when the sink client is
\* initialised.
C16_SinkNeverRaises ==
    /\ ret.fn # "raised"
    /\ SinkReturnValues

-----------------------------------------------------------------------------
(* The response of an upload and a remote end that never answers.          *)

\* thread 1 serves an upload whose response is not made yet; its response
\* is made
Uploading == req[1].kind \in {"upload", "main.upload"} /\ req[1].pc # "done"
Answered == req[1].pc = "done" /\ req[1].resp # None

\* with a remote end that answers, or fails, every upload is answered
AnsweredWhenSinkReturns == (Uploading /\ remote # "hanging") ~> Answered

\* C17: the response to an upload request is eventually returned to the
\* caller even if a remote spreadsheet append never returns: the append is
\* bounded by a timeout and the response does not wait for it without bound.
C17_UploadEventuallyAnswered == Uploading ~> Answered

-----------------------------------------------------------------------------
(* The rows that reach the remote sheet.                                   *)

\* the column that the header of line 109 gives to a name
ColumnOf(name) == CHOOSE k \in 1..Len(SHEET_HEADERS) : SHEET_HEADERS[k] = name

\* row holds one value per column of the header, and the values of record p
\* stand under their names
FollowsHeader(row, p) ==
    /\ Len(row) = Len(SHEET_HEADERS)
    /\ row[ColumnOf(<<"f", "i", "l", "e">>)] = p.file
    /\ row[ColumnOf(<<"v", "e", "n", "d", "o", "r">>)] = OptText(p.vendor)
    /\ row[ColumnOf(<<"d", "a", "t", "e">>)] = OptText(p.date)
    /\ row[ColumnOf(<<"a", "m", "o", "u", "n", "t">>)] = NumberText(p.amount)
    /\ row[ColumnOf(<<"c", "o", "n", "f", "i", "d", "e", "n", "c", "e">>)]
          = FloatStr(p.confidence)
    /\ row[ColumnOf(<<"n", "e", "e", "d", "s", "_", "r", "e", "v", "i", "e", "w">>)]
          = FlagText(p.needs_review)
    /\ row[ColumnOf(<<"r", "a", "w", "_", "e", "x", "c", "e", "r", "p", "t">>)]
          = Prefix(p.raw_excerpt, EXCERPT_LEN)

\* the records handed to the two append operations
SinkRecords == SinkPayloads \cup {test_data}

\* the worksheet "invoices" starts with the header, and each row that
\* save_row_to_sheet sent follows it
SavedRowsFollowHeader ==
    sheet.invoices # None =>
        /\ Get(sheet.invoices) # << >> => Get(sheet.invoices)[1] = SHEET_HEADERS
        /\ \A k \in 2..Len(Get(sheet.invoices)) :
              \E p \in SinkRecords : FollowsHeader(Get(sheet.invoices)[k], p)

\* C18: every row sent to the remote sheet by an append-single-row operation
\* has exactly 13 values in the column order timestamp, file, vendor, date,
\* amount, currency, category, description, notes, confidence, needs_review,
\* raw_excerpt, source, matching the 13-column header written when the
\* worksheet is created.
C18_RowsHaveThirteenColumns ==
    /\ Len(SHEET_HEADERS) = 13
    /\ SavedRowsFollowHeader
    /\ \A k \in 1..Len(sheet.sheet1) :
          \E p \in SinkRecords : FollowsHeader(sheet.sheet1[k], p)

-----------------------------------------------------------------------------
(* Which requests change the buffer of a session.                          *)

\* what _STORE holds for session sid: the list object and its rows
SessionEntry(sid) ==
    IF sid \in DOMAIN _STORE
    THEN Some([ref |-> _STORE[sid], items |-> heap[_STORE[sid]].items])
    ELSE None

\* the step changes what _STORE holds for sid: the session gets an entry, its
\* list is replaced or the rows of its list change
BufferChanges(sid) == SessionEntry(sid)' # SessionEntry(sid)

\* the step is taken by a request of kind k of session sid
StepOf(k, sid) ==
    \E t \in Threads :
        /\ req'[t] # req[t]
        /\ req'[t].kind = k
        /\ req'[t].sid = sid

\* the buffer of a session changes only in a step of a request of that
\* session, and it gets rows only in a step of an upload
BufferChangedOnlyBySession ==
    [][\A sid \in 1..MaxSessions :
          /\ BufferChanges(sid) =>
                \E k \in {"upload", "clear", "export_csv", "export_json"} :
                    StepOf(k, sid)
          /\ (SessionEntry(sid)' # None /\ Get(SessionEntry(sid)').items # << >>
                /\ BufferChanges(sid)) => StepOf("upload", sid)]_vars

\* C19: a session's result buffer in _STORE is changed only by an upload
\* request of that session: no other request (export as CSV, export as JSON,
\* clear, settings, health check) adds a session entry, removes rows or
\* replaces the buffer.
C19_BufferChangedOnlyByUpload ==
    [][\A sid \in 1..MaxSessions :
          BufferChanges(sid) => StepOf("upload", sid)]_vars

-----------------------------------------------------------------------------
(* An upload of more files than MAX_FILES.                                 *)

\* an upload of src/app.py that carries more files than MAX_FILES
Oversized(r) == r.kind = "upload" /\ Len(r.batch) > MAX_FILES
TooManyEntries(r) == SelectSeq(r.errors, LAMBDA e : e.code = "TOO_MANY")

\* the loop goes through the first MAX_FILES files and reads the content of
\* no other; each file past them has its TOO_MANY entry, in order; results
\* holds the rows of the files the loop has gone through, and every turn of
\* the loop made one row or one entry
FirstTenOnly(r) ==
    /\ r.files = SubSeq(r.batch, 1, MAX_FILES)
    /\ r.idx \in 1..(MAX_FILES + 1)
    /\ r.read \subseteq 1..MAX_FILES
    /\ Len(TooManyEntries(r)) = Len(r.batch) - MAX_FILES
    /\ \A j \in 1..(Len(r.batch) - MAX_FILES) :
          /\ r.errors[j].code = "TOO_MANY"
          /\ r.errors[j].file = Some(r.batch[MAX_FILES + j].filename)
    /\ r.results = RowsOf(Through(r))
    /\ r.errors = TooMany(r.batch) \o EntriesOf(Through(r))

\* a list that changes in a step of thread t gets the row of the file of the
\* present turn of the loop, one of the first MAX_FILES
GetsRowOfTurn(t) ==
    \A k \in 1..Len(heap') :
        LET old == IF k <= Len(heap) THEN heap[k].items ELSE << >>
        IN  heap'[k].items # old =>
                /\ req'[t].idx \in 1..MAX_FILES
                /\ FileOutcome[req'[t].batch[req'[t].idx]].ok
                /\ heap'[k].items =
                      Append(old, FileOutcome[req'[t].batch[req'[t].idx]].row)

-----------------------------------------------------------------------------
(* The vendor that extract_vendor returns.                                 *)

\* two characters that differ at most in case
SameLetter(a, b) == a = b \/ SwapCase(a) = b
\* name h stands in text t, whatever the case of its letters
Occurs(h, t) ==
    \E j \in 0..(Len(t) - Len(h)) :
        \A i \in 1..Len(h) : SameLetter(t[j + i], h[i])
\* the places in the list of the names that stand in the text
Listed(hints, t) == { k \in 1..Len(hints) : Occurs(hints[k], t) }
Least(S) == CHOOSE k \in S : \A m \in S : k <= m

\* r is a run of 3 to 50 letters, digits, kana or ideographs that one of the
\* first ten lines of t holds, with no such character next to it
IsCandidateOf(r, t) ==
    /\ Len(r) >= 3 /\ Len(r) <= 50
    /\ \A i \in 1..Len(r) : r[i] \in CandidateChars
    /\ \E n \in 1..10 :
          /\ n <= Len(Split(t, "\n"))
          /\ LET line == Split(t, "\n")[n]
             IN  \E j \in 0..(Len(line) - Len(r)) :
                    /\ SubSeq(line, j + 1, j + Len(r)) = r
                    /\ j > 0 => line[j] \notin CandidateChars
                    /\ j + Len(r) < Len(line) => line[j + Len(r) + 1] \notin CandidateChars

VendorIsFirstListed(val, hints) ==
    IF Listed(hints, text) # {}
    THEN val = Some(hints[Least(Listed(hints, text))])
    ELSE val # None => IsCandidateOf(Get(val), text)

\* C21: InvoiceProcessor.extract_vendor returns a known vendor name whenever
\* at least one name of VENDOR_HINTS occurs in the text as a case-insensitive
\* substring: the name returned is the first such name in list order (not the
\* first in text order), in the list's casing, and the first-10-lines fallback
\* (first run of 3 to 50 alphanumeric or CJK characters) is used only when no
\* listed name occurs.
C21_VendorIsFirstListedName ==
    /\ ret.fn = "app.extract_vendor" => VendorIsFirstListed(ret.val, App_VENDOR_HINTS)
    /\ ret.fn = "main.extract_vendor" => VendorIsFirstListed(ret.val, VENDOR_HINTS)

\* "GOOGLE" stands before "amazon" in the text, "metadata" behind them:
\* the name returned is Amazon, the first of the three in the list
C21_Witness ==
    /\ ret.fn = "app.extract_vendor"
    /\ text = <<"G", "O", "O", "G", "L", "E", "\n", "a", "m", "a", "z", "o", "n", " ",
                "m", "e", "t", "a", "d", "a", "t", "a">>
    /\ ret.val = Some(<<"A", "m", "a", "z", "o", "n">>)

-----------------------------------------------------------------------------
(* The amount of a labelled digit string (extract_amount of src/app.py).   *)

\* a digit string with optional comma grouping, such as 12,345, as group n
DigitString(n) == Grp(n, Cat(<< Cls(Digit), Star(Cls(Digit \cup {","})) >>))
\* the labels and currency markers of AMOUNT_PATTERNS, in list order, each
\* followed by what its pattern allows before the number and by a digit string
LabelledNumber ==
    << Cat(<< LitI(<<"GOU", "KEI">>), Star(Cls(LabelGap)), DigitString(1) >>),
       Cat(<< LitI(<<"SEI", "KYUU", "KIN", "GAKU">>), Star(Cls(LabelGap)),
              DigitString(1) >>),
       Cat(<< Cls({"YEN"}), Opt(Cls(Space)), DigitString(1) >>),
       Cat(<< LitI(<<"J", "P", "Y">>), Opt(Cls(Space)), DigitString(1) >>) >>
\* the labels of the list that a digit string follows somewhere in t
Labelled(t) == { k \in 1..Len(LabelledNumber) : Search(LabelledNumber[k], t).found }

\* the first pattern in list order that produces a number is the one whose
\* number is returned: no pattern before it matches a substring that parses
FirstParsingPatternWins ==
    ret.fn = "app.extract_amount" /\ ret.val # None =>
        \E k \in 1..Len(App_AMOUNT_PATTERNS) :
            LET match == Search(App_AMOUNT_PATTERNS[k], text)
            IN  /\ match.found
                /\ IsDecimalOf(Get(ret.val), Group(text, match, 1))
                /\ NoneParses(SubSeq(App_AMOUNT_PATTERNS, 1, k - 1), text, 1)

\* C22: extract_amount of src/app.py goes through AMOUNT_PATTERNS in list
\* order and, for a text in which a label or a currency marker is followed by
\* a digit string with optional comma grouping, returns the number of the
\* first label in list order that such a digit string follows, read without
\* its commas.
C22_AmountOfLabelledDigits ==
    ret.fn = "app.extract_amount" /\ Labelled(text) # {} =>
        LET k == Least(Labelled(text))
            g == Group(text, Search(LabelledNumber[k], text), 1)
        IN  /\ ret.val # None
            /\ IsDecimalOf(Get(ret.val), g)

-----------------------------------------------------------------------------
(* The session buffer across one upload request.                           *)

\* the rows buffered for session s (none for a client without a session and
\* for a session without an entry)
BufferOf(s) == IF s \in DOMAIN _STORE THEN heap[_STORE[s]].items ELSE << >>
\* what the buffer of the session of upload r held when r arrived, if r put
\* its results and nothing else behind it
BufferBefore(r) ==
    SubSeq(BufferOf(r.sid), 1, Len(BufferOf(r.sid)) - Len(r.results))
\* the same of the state a step leads to
BufferOfNext(s) == IF s \in DOMAIN _STORE' THEN heap'[_STORE'[s]].items ELSE << >>
BufferBeforeNext(r) ==
    SubSeq(BufferOfNext(r.sid), 1, Len(BufferOfNext(r.sid)) - Len(r.results))
\* the rows the response of r carries
ResponseRows(r) == IF Get(r.resp).ok THEN Get(r.resp).results ELSE << >>

\* a step of the server seen from the upload on thread t: the buffer of its
\* session is what it was when the request arrived followed by the results,
\* and the response carries those results
GrowsByResults(t) ==
    req'[t].kind = "upload" =>
        /\ IsSuffix(req'[t].results, BufferOfNext(req'[t].sid))
        /\ BufferBeforeNext(req'[t]) =
              IF req[t].kind = "upload" THEN BufferBefore(req[t])
              ELSE BufferOf(req'[t].sid)
        /\ req'[t].pc = "done" =>
              /\ ResponseRows(req'[t]) = req'[t].results
              /\ req'[t].results = RowsOf(req'[t].files)

\* C23: when an /api/upload request runs with no other request of its session
\* in between, the session buffer after the request is the buffer before the
\* request followed by exactly the rows of the response's results, in the
\* same order; a file that ended in an error adds no row.
C23_BufferGrowsByResults == [][GrowsByResults(1)]_vars

\* a second upload of a session answered: the buffer holds the row of the
\* first upload and then the rows of this one, whose broken file added none
C23_Witness ==
    /\ UploadDone(req[1])
    /\ req[1].files = <<File_Odd, File_Broken, File_Invoice>>
    /\ Len(ResponseRows(req[1])) = 2
    /\ BufferOf(req[1].sid) = <<FileOutcome[File_Invoice].row>> \o ResponseRows(req[1])

-----------------------------------------------------------------------------
(* One entry per submitted file.                                           *)

\* the name an entry carries for the file f: the name as it was sent for a
\* file past MAX_FILES (line 1103), the secured name or unknown.pdf otherwise
\* (line 1110)
NameInEntry(f, past) ==
    IF past THEN f.filename
    ELSE IF f.filename # << >> THEN secure_filename(f.filename) ELSE Name_unknown_pdf
\* the errors and the results a response carries
ResponseErrors(resp) == IF "errors" \in DOMAIN resp THEN resp.errors ELSE << >>
ResponseResults(resp) == IF "results" \in DOMAIN resp THEN resp.results ELSE << >>
\* how many of the first j files of the loop got a row, and how many did not
RowsUpTo(files, j) == Cardinality({ i \in 1..j : Codes[files[i]] = "" })
ErrorsUpTo(files, j) == Cardinality({ i \in 1..j : Codes[files[i]] # "" })
\* where the entry of the j-th submitted file of r stands in the response
PlaceOf(r, j) ==
    IF j > MAX_FILES THEN [list |-> "errors", at |-> j - MAX_FILES]
    ELSE IF Codes[r.batch[j]] = ""
    THEN [list |-> "results", at |-> RowsUpTo(r.batch, j)]
    ELSE [list |-> "errors",
          at |-> Len(r.batch) - Len(r.files) + ErrorsUpTo(r.batch, j)]

-----------------------------------------------------------------------------
(* The status of an upload response.                                       *)

\* a file of the loop of r is processed successfully
SomeProcessed(r) == \E j \in 1..Len(r.files) : Codes[r.files[j]] = ""
\* the response of the upload r says ok exactly when a file was processed;
\* if none was, it is a 400 that carries the error list and nothing else
StatusTellsProcessed(r) ==
    LET resp == Get(r.resp)
    IN  IF SomeProcessed(r)
        THEN /\ resp.ok /\ resp.status = 200
             /\ "results" \in DOMAIN resp
             /\ resp.results # << >>
        ELSE /\ ~resp.ok /\ resp.status = 400
             /\ DOMAIN resp = {"status", "ok", "errors"}
             /\ resp.errors # << >>
\* a step of the upload on thread t
UploadStep(t) == req'[t] # req[t] /\ req'[t].kind = "upload"

\* C25: an /api/upload response has ok=true (status 200, carrying results)
\* iff at least one file was processed successfully; when every file of the
\* batch ended in an error the response is ok=false with status 400 and
\* carries only the error list, and no step of that request changes what
\* _STORE holds or a stored list.
C25_OkIffAFileProcessed ==
    [][\A t \in Threads :
          UploadStep(t) =>
              /\ req'[t].pc = "done" => StatusTellsProcessed(req'[t])
              /\ ~SomeProcessed(req'[t]) => UNCHANGED <<_STORE, heap>>]_vars

\* a session that holds a row sent a file that cannot be parsed: the answer
\* is a 400 and the row is still the only one
C25_Witness ==
    /\ req[1].kind = "upload" /\ req[1].pc = "done"
    /\ req[1].batch = <<File_Broken>>
    /\ Get(req[1].resp).status = 400
    /\ req[1].sid = 1
    /\ BufferOf(1) = <<FileOutcome[File_Invoice].row>>

-----------------------------------------------------------------------------
(* Exports after a clear.                                                  *)

\* session s has a stored list without rows: it was cleared (or only looked
\* up) and no row was appended since
Cleared(s) == s \in DOMAIN _STORE /\ heap[_STORE[s]].items = << >>
ClearedNext(s) == s \in DOMAIN _STORE' /\ heap'[_STORE'[s]].items = << >>
Exports == {"export_csv", "export_json"}
Refusal == [status |-> 400, error |-> "No results to export"]

\* a clear request leaves its session cleared
ClearClears(t) ==
    req'[t] # req[t] /\ req'[t].kind = "clear" => ClearedNext(req'[t].sid)
\* an export request that arrives for a cleared session is refused
ExportRefused(t) ==
    /\ req[t].kind = "idle" /\ req'[t].kind \in Exports
    /\ Cleared(req'[t].sid)
    => req'[t].pc = "done" /\ req'[t].resp = Some(Refusal)
\* a session stops being cleared only in a step of an upload of that session
\* that appends the row of a file it processed
ClearedUntilProcessed(s) ==
    Cleared(s) /\ ~ClearedNext(s) =>
        \E t \in Threads :
            /\ UploadStep(t) /\ req'[t].sid = s
            /\ req'[t].results = Append(req[t].results, Get(req[t].row))
            /\ Codes[req[t].files[req[t].idx]] = ""
            /\ BufferOfNext(s) = <<Get(req[t].row)>>
\* a list that _STORE gets for a session is a new one without rows: a list
\* that was replaced is never stored again
ReplacedForGood(s) ==
    /\ s \in DOMAIN _STORE => s \in DOMAIN _STORE'
    /\ s \in DOMAIN _STORE' /\ (s \in DOMAIN _STORE => _STORE'[s] # _STORE[s]) =>
          /\ _STORE'[s] > Len(heap)
          /\ heap'[_STORE'[s]].items = << >>
\* an export writes the rows of the list that was stored for its session
\* when it arrived
ExportReadsStored(t) ==
    /\ req[t].kind = "idle" /\ req'[t].kind \in Exports =>
          req'[t].ref = _STORE'[req'[t].sid]
    /\ req[t].kind \in Exports /\ req[t].pc = "write" /\ req'[t].pc = "done" =>
          Get(req'[t].resp).body =
              IF req[t].kind = "export_csv" THEN CsvContent(heap[req[t].ref].items)
              ELSE JsonContent(heap[req[t].ref].items)

\* C26: after /api/clear for a session, every export request (CSV or JSON)
\* of that session is answered 400 "No results to export" until an upload of
\* that session has processed a file; the rows buffered before the clear are
\* in a list that no later export reads.
C26_ClearedUntilUpload ==
    [][/\ \A t \in Threads : ClearClears(t) /\ ExportRefused(t) /\ ExportReadsStored(t)
       /\ \A s \in DOMAIN _STORE \cup DOMAIN _STORE' :
             ClearedUntilProcessed(s) /\ ReplacedForGood(s)]_vars

\* an export refused for a session whose earlier list, holding a row, was
\* replaced by a clear
C26_Witness ==
    \E t \in Threads :
        /\ req[t].kind \in Exports /\ req[t].resp = Some(Refusal)
        /\ \E k \in 1..Len(heap) :
              /\ heap[k].key = req[t].sid
              /\ heap[k].items # << >>
              /\ _STORE[req[t].sid] # k

-----------------------------------------------------------------------------
(* Appends of concurrent requests of one session.                          *)

\* thread t appends the row of its upload in this step
Appends(t) ==
    /\ req[t].kind = "upload" /\ req[t].pc = "append"
    /\ req'[t] # req[t]
\* the step keeps the rows of the buffer of session s
KeepsRows(s) == BufferOfNext(s) = BufferOf(s)
\* the step is a clear of session s
Clears(s) == \E t \in Threads : req'[t] # req[t] /\ req'[t].kind = "clear" /\ req'[t].sid = s

\* what holds: a row is appended once to the list the upload looked up; the
\* list stored for a session is replaced by a clear only; so an append
\* reaches the buffer whenever no clear came between the lookup and the
\* append, and with no clear at all the buffer holds every row of the results
AppendsReachLookedUpList ==
    [][/\ \A t \in Threads :
             Appends(t) =>
                 /\ heap'[req[t].ref].items = Append(heap[req[t].ref].items, Get(req[t].row))
                 /\ \A k \in 1..Len(heap) : k # req[t].ref => heap'[k] = heap[k]
                 /\ _STORE[req[t].sid] = req[t].ref =>
                       BufferOfNext(req[t].sid) =
                           Append(BufferOf(req[t].sid), Get(req[t].row))
       /\ \A s \in DOMAIN _STORE :
             _STORE'[s] # _STORE[s] => Clears(s)]_vars

\* C27: when requests of one session run concurrently (two uploads, or an
\* upload and a clear), no append is lost or duplicated: every append of an
\* upload adds its row once to the buffer of the session as the last clear
\* left it, and the rows of the buffer are otherwise changed by a clear only.
C27_NoAppendLost ==
    [][/\ \A t \in Threads :
             Appends(t) =>
                 BufferOfNext(req[t].sid) = Append(BufferOf(req[t].sid), Get(req[t].row))
       /\ \A s \in DOMAIN _STORE :
             (\A t \in Threads : ~(Appends(t) /\ req[t].sid = s)) /\ ~Clears(s) =>
                 KeepsRows(s)]_vars

-----------------------------------------------------------------------------
(* What POST /settings leaves in data/config.json.                         *)

\* what data/config.json holds
ConfigFile == [service_account_json |-> config.service_account_json,
               sheet_id |-> config.sheet_id]
\* thread t serves a settings request in this step
SettingsStep(t) == req[t].kind = "idle" /\ req'[t].kind = "settings"

\* what holds: a request that is refused before the connection test (no
\* object, a missing field, credentials that are not JSON) leaves the file as
\* it was, and the file is changed by settings requests only
RefusedSettingsLeaveFile ==
    [][/\ \A t \in Threads :
             /\ SettingsStep(t)
             /\ Get(req'[t].resp).status # 200
             /\ Get(req'[t].resp).error # "Connection test failed"
             => ConfigFile' = ConfigFile
       /\ ConfigFile' # ConfigFile => \E t \in Threads : SettingsStep(t)]_vars

\* C28: POST /settings leaves data/config.json unchanged whenever it answers
\* with an error: the file is changed only by a request that is answered 200,
\* so a failed connection test leaves the stored configuration to the later
\* uploads.
C28_ErrorLeavesConfig ==
    [][/\ \A t \in Threads :
             SettingsStep(t) /\ Get(req'[t].resp).status # 200 => ConfigFile' = ConfigFile
       /\ ConfigFile' # ConfigFile =>
             \E t \in Threads : SettingsStep(t) /\ Get(req'[t].resp).status = 200]_vars

-----------------------------------------------------------------------------
(* The vendor of extract_fields_jp is a name or nothing.                   *)

\* the fields among amount, date and vendor that hold a value to show: an
\* empty vendor is none
FoundFields(rec) ==
    (IF rec.amount # None THEN 1 ELSE 0) + (IF rec.date # None THEN 1 ELSE 0)
        + (IF rec.vendor # None /\ Get(rec.vendor) # << >> THEN 1 ELSE 0)

\* C29: in extract_fields_jp a vendor that is not null is a non-empty string:
\* a match of which nothing is left once the honorific and the surrounding
\* whitespace are stripped gives vendor null and is not counted as a found
\* field in the confidence.
C29_VendorNotEmpty ==
    ret.fn = "extract_fields_jp" =>
        /\ ret.val.vendor # None => Get(ret.val.vendor) # << >>
        /\ ret.val.confidence = Round2(FoundFields(ret.val), 3)

-----------------------------------------------------------------------------
(* The launcher's buttons.                                                 *)

\* a boot attempt is under way: its callback is due or running
Booting == launcher.pc = "health_ok" \/ (launcher.pc = "mainloop" /\ launcher.scheduled)
\* the window waits for the user after a boot attempt
BootEnded == launcher.pc = "mainloop" /\ ~launcher.scheduled /\ launcher.boots > 0
Enabled(b) == b = "normal"
\* the last boot attempt ended with the health check answered
Healthy == launcher.lbl = "started"

\* whenever the window waits after a boot attempt exactly one of the two
\* buttons is enabled, open iff the health check succeeded, retry iff the
\* server did not start or the health check timed out; the two are never
\* enabled together; the health check starts no request once its time is over
ButtonsTellOutcome ==
    /\ ~(Enabled(launcher.btn_open) /\ Enabled(launcher.btn_retry))
    /\ BootEnded =>
          /\ Enabled(launcher.btn_open) <=> Healthy
          /\ Enabled(launcher.btn_retry) <=> launcher.lbl \in {"failed", "error"}
          /\ Enabled(launcher.btn_open) \/ Enabled(launcher.btn_retry)
          /\ launcher.lbl = "failed" =>
                launcher.log = "Health check failed" /\ launcher.elapsed >= HEALTH_TIMEOUT
    /\ launcher.elapsed < HEALTH_TIMEOUT + REQUEST_TIMEOUT + POLL_SLEEP

\* C30: every boot attempt of the launcher comes to its end (the health
\* check polls for at most its timeout) and ends with exactly one of the two
\* buttons enabled: "open in browser" iff the health check succeeded, "retry"
\* iff the server failed to start or the health check timed out; in every
\* state reached through boot and retry the two buttons are never both
\* enabled.
C30_BootEndsWithOneButton ==
    /\ []ButtonsTellOutcome
    /\ (Booting ~> (BootEnded \/ launcher.pc = "exited"))

\* the third attempt succeeded after one that could not start the server and
\* one whose health check timed out
C30_Witness ==
    /\ BootEnded
    /\ launcher.boots = 3
    /\ launcher.btn_open = "normal" /\ launcher.btn_retry = "disabled"
    /\ launcher.log = "Health check failed"
    /\ launcher.elapsed > 0

====
